---- MODULE Spec2Model ----
(***************************************************************************)
(* Verification model of the novel-summarizer storyteller pipeline:        *)
(* the world-state store (characters, items, plot events, world facts,     *)
(* checkpoints), the storytell_book controller in chapter mode and in step *)
(* mode, the session scope it runs in, and the hybrid memory retrieval.    *)
(***************************************************************************)
EXTENDS Integers, Sequences, FiniteSets, TLC

\* ------------------------------------------------------------------ bounds
\* Number of storytell runs explored in one behaviour.
MaxRuns == 2
\* Failures explored in one behaviour: exceptions raised by nodes and LLM
\* calls that fail on every attempt.
MaxFailures == 1
\* Chapters of book 1 (idx 1..N, contiguous); book 2 is a one-chapter book.
NumChapters == 3

\* ------------------------------------------------------- program constants
\* storyteller.recent_events_window default.
recent_events_window == 5
\* list_recent_plot_events(limit=20).
RecentEventsLimit == 20
\* list_world_facts(limit=10_000) in the snapshot.
SnapshotFactsLimit == 10000

Null == "NULL"
NullIdx == 0

Books == {1, 2}
LastChapterIdx(b) == IF b = 1 THEN NumChapters ELSE 1
\* chapters.id is the primary key of the chapter row; (book, idx) is unique.
ChapterId(b, idx) == b * 100 + idx

Max(S) == CHOOSE x \in S : \A y \in S : y <= x
Min(S) == CHOOSE x \in S : \A y \in S : x <= y

\* SQLite rowid allocation for INTEGER PRIMARY KEY without AUTOINCREMENT:
\* one more than the largest rowid in the table, 1 for an empty table.
NextId(rows) == IF rows = {} THEN 1 ELSE Max({r.id : r \in rows}) + 1

\* sha256_text is modelled as an injective function of the hashed text:
\* two hashes agree exactly when the serialized inputs agree.
sha256_text(x) == x

\* ------------------------------------------------------------ world state
EmptyWorld == [characters |-> {}, items |-> {}, plot_events |-> {}, world_facts |-> {}]

\* The rows of one book in the four world-state tables.
BookWorld(ws, b) ==
    [characters |-> {r \in ws.characters : r.book_id = b},
     items |-> {r \in ws.items : r.book_id = b},
     plot_events |-> {r \in ws.plot_events : r.book_id = b},
     world_facts |-> {r \in ws.world_facts : r.book_id = b}]

clear_world_state_for_book(ws, b) ==
    [characters |-> {r \in ws.characters : r.book_id # b},
     items |-> {r \in ws.items : r.book_id # b},
     plot_events |-> {r \in ws.plot_events : r.book_id # b},
     world_facts |-> {r \in ws.world_facts : r.book_id # b}]

insert_plot_event(ws, b, idx, summary, involved) ==
    [ws EXCEPT !.plot_events = @ \cup
        {[id |-> NextId(@), book_id |-> b, chapter_idx |-> idx,
          event_summary |-> summary, involved_characters_json |-> involved,
          event_type |-> "narration_draft"]}]

upsert_world_fact(ws, b, key, value, conf, src, excerpt) ==
    IF \E r \in ws.world_facts : r.book_id = b /\ r.fact_key = key
    THEN [ws EXCEPT !.world_facts =
            {IF r.book_id = b /\ r.fact_key = key
             THEN [r EXCEPT !.fact_value = value, !.confidence = conf,
                            !.source_chapter_idx = src, !.source_excerpt = excerpt]
             ELSE r : r \in @}]
    ELSE [ws EXCEPT !.world_facts = @ \cup
            {[id |-> NextId(@), book_id |-> b, fact_key |-> key, fact_value |-> value,
              confidence |-> conf, source_chapter_idx |-> src, source_excerpt |-> excerpt]}]

upsert_character_state(ws, b, canonical, aliases, first, last, status, location) ==
    IF \E r \in ws.characters : r.book_id = b /\ r.canonical_name = canonical
    THEN [ws EXCEPT !.characters =
            {IF r.book_id = b /\ r.canonical_name = canonical
             THEN [r EXCEPT !.aliases_json = aliases, !.first_chapter_idx = first,
                            !.last_chapter_idx = last, !.status = status,
                            !.location = location]
             ELSE r : r \in @}]
    ELSE [ws EXCEPT !.characters = @ \cup
            {[id |-> NextId(@), book_id |-> b, canonical_name |-> canonical,
              aliases_json |-> aliases, first_chapter_idx |-> first,
              last_chapter_idx |-> last, status |-> status, location |-> location]}]

upsert_item_state(ws, b, name, owner, first, last, description, status) ==
    IF \E r \in ws.items : r.book_id = b /\ r.name = name
    THEN [ws EXCEPT !.items =
            {IF r.book_id = b /\ r.name = name
             THEN [r EXCEPT !.owner_name = owner, !.first_chapter_idx = first,
                            !.last_chapter_idx = last, !.description = description,
                            !.status = status]
             ELSE r : r \in @}]
    ELSE [ws EXCEPT !.items = @ \cup
            {[id |-> NextId(@), book_id |-> b, name |-> name, owner_name |-> owner,
              first_chapter_idx |-> first, last_chapter_idx |-> last,
              description |-> description, status |-> status]}]

\* ------------------------------------------------------------ state_update
\* Names the model draws entities from.  "Han" is a spelling variant of "han":
\* _normalize_name lower-cases and strips blanks.
Names == {"Han", "han", "mo"}
normalize_name(name) == IF name = "Han" THEN "han" ELSE name
\* ORDER BY canonical_name (binary collation: upper case sorts first).
NameRank(name) == CASE name = "Han" -> 1 [] name = "han" -> 2 [] OTHER -> 3

NoChar == [present |-> FALSE, aliases_json |-> {}, first_chapter_idx |-> NullIdx,
           status |-> Null, location |-> Null]
CharDict(r) == [present |-> TRUE, aliases_json |-> r.aliases_json,
                first_chapter_idx |-> r.first_chapter_idx,
                status |-> r.status, location |-> r.location]

\* _build_character_lookup: (by_canonical, alias_to_canonical) from the
\* character_states list, later rows overwriting earlier ones.
build_character_lookup(character_states) ==
    LET touches(r, key) == normalize_name(r.canonical_name) = key
                           \/ \E a \in r.aliases_json : normalize_name(a) = key
        last(key) == CHOOSE r \in character_states : touches(r, key)
                        /\ \A q \in character_states : touches(q, key)
                              => NameRank(q.canonical_name) <= NameRank(r.canonical_name)
    IN [by_canonical |->
          [n \in Names |-> IF \E r \in character_states : r.canonical_name = n
                           THEN CharDict(CHOOSE r \in character_states : r.canonical_name = n)
                           ELSE NoChar],
        alias_to_canonical |->
          [key \in {normalize_name(n) : n \in Names} |->
              IF \E r \in character_states : touches(r, key)
              THEN last(key).canonical_name ELSE Null]]

resolve_canonical(name, alias_to_canonical) ==
    IF alias_to_canonical[normalize_name(name)] # Null
    THEN alias_to_canonical[normalize_name(name)] ELSE name

RECURSIVE UpdateEvents(_, _, _, _)
UpdateEvents(ws, b, chapter_idx, key_events) ==
    IF key_events = <<>> THEN ws
    ELSE LET ev == Head(key_events)
             involved == IF ev.who # "" THEN ev.who ELSE Null
             w1 == insert_plot_event(ws, b, chapter_idx, ev.what, involved)
             w2 == upsert_world_fact(w1, b, <<"event", chapter_idx, sha256_text(ev.what)>>,
                                     ev.what, 70, chapter_idx, ev.what)
         IN IF ev.what = "" THEN UpdateEvents(ws, b, chapter_idx, Tail(key_events))
            ELSE UpdateEvents(w2, b, chapter_idx, Tail(key_events))

\* The entities loop keeps by_canonical and alias_to_canonical up to date.
RECURSIVE UpdateEntities(_, _, _, _)
UpdateEntities(acc, b, chapter_idx, entities) ==
    IF entities = <<>> THEN acc
    ELSE LET name == Head(entities)
             canonical == resolve_canonical(name, acc.alias_to_canonical)
             existing == acc.by_canonical[canonical]
             a0 == IF existing.present THEN existing.aliases_json ELSE {}
             a1 == IF canonical # name /\ name \notin a0 THEN a0 \cup {name} ELSE a0
             aliases == IF canonical = name THEN a1 \ {canonical} ELSE a1
             first == IF existing.present THEN existing.first_chapter_idx ELSE chapter_idx
             status == IF existing.status # Null /\ existing.status # "" THEN existing.status
                       ELSE "active"
             w1 == upsert_character_state(acc.ws, b, canonical, aliases, first, chapter_idx,
                                          status, existing.location)
             nxt == [ws |-> w1,
                     by_canonical |-> [acc.by_canonical EXCEPT ![canonical] =
                          [existing EXCEPT !.present = TRUE, !.aliases_json = aliases]],
                     alias_to_canonical |-> [acc.alias_to_canonical EXCEPT
                          ![normalize_name(canonical)] = canonical,
                          ![normalize_name(name)] = canonical]]
         IN IF name = "" THEN UpdateEntities(acc, b, chapter_idx, Tail(entities))
            ELSE UpdateEntities(nxt, b, chapter_idx, Tail(entities))

\* The character_updates loop reads by_canonical but never writes it back.
RECURSIVE UpdateCharacters(_, _, _, _, _, _)
UpdateCharacters(ws, by_canonical, alias_to_canonical, b, chapter_idx, updates) ==
    IF updates = <<>> THEN ws
    ELSE LET update == Head(updates)
             raw_name == IF update.name_raw # "" THEN update.name_raw ELSE update.name
             name == IF update.name # "" THEN update.name ELSE raw_name
             canonical == resolve_canonical(name, alias_to_canonical)
             existing == by_canonical[canonical]
             a0 == IF existing.present THEN existing.aliases_json ELSE {}
             aliases == IF raw_name # "" /\ raw_name # canonical /\ raw_name \notin a0
                        THEN a0 \cup {raw_name} ELSE a0
             change_type == IF update.change_type = "" THEN "status" ELSE update.change_type
             status0 == IF existing.status # Null /\ existing.status # "" THEN existing.status
                        ELSE "active"
             status == IF change_type = "status" /\ update.after # "" THEN update.after
                       ELSE status0
             location == IF change_type = "location" /\ update.after # "" THEN update.after
                         ELSE existing.location
             first == IF existing.present THEN existing.first_chapter_idx ELSE chapter_idx
             w1 == upsert_character_state(ws, b, canonical, aliases, first, chapter_idx,
                                          status, location)
             w2 == upsert_world_fact(w1, b, <<"character", canonical, "status">>, status, 85,
                                     chapter_idx, update.evidence)
             w3 == IF location # Null /\ location # ""
                   THEN upsert_world_fact(w2, b, <<"character", canonical, "location">>,
                                          location, 80, chapter_idx, update.evidence)
                   ELSE w2
         IN IF name = ""
            THEN UpdateCharacters(ws, by_canonical, alias_to_canonical, b, chapter_idx, Tail(updates))
            ELSE UpdateCharacters(w3, by_canonical, alias_to_canonical, b, chapter_idx, Tail(updates))

RECURSIVE UpdateItems(_, _, _, _)
UpdateItems(ws, b, chapter_idx, new_items) ==
    IF new_items = <<>> THEN ws
    ELSE LET it == Head(new_items)
             owner == IF it.owner # "" THEN it.owner ELSE Null
             description == IF it.description # "" THEN it.description ELSE Null
             w1 == upsert_item_state(ws, b, it.name, owner, chapter_idx, chapter_idx,
                                     description, "active")
             w2 == IF owner # Null
                   THEN upsert_world_fact(w1, b, <<"item", it.name, "owner">>, owner, 75,
                            chapter_idx, IF description # Null THEN description ELSE owner)
                   ELSE w1
         IN IF it.name = "" THEN UpdateItems(ws, b, chapter_idx, Tail(new_items))
            ELSE UpdateItems(w2, b, chapter_idx, Tail(new_items))

\* state_update.run: st carries chapter_idx, character_states, key_events,
\* entities_mentioned, character_updates and new_items.
state_update(ws, b, st) ==
    LET lk == build_character_lookup(st.character_states)
        w1 == UpdateEvents(ws, b, st.chapter_idx, st.key_events)
        acc == UpdateEntities([ws |-> w1, by_canonical |-> lk.by_canonical,
                               alias_to_canonical |-> lk.alias_to_canonical],
                              b, st.chapter_idx, st.entities_mentioned)
        w3 == UpdateCharacters(acc.ws, acc.by_canonical, acc.alias_to_canonical,
                               b, st.chapter_idx, st.character_updates)
    IN UpdateItems(w3, b, st.chapter_idx, st.new_items)

\* ------------------------------------------------------------ state_lookup
SeqToSet(s) == {s[i] : i \in 1..Len(s)}

list_character_states(ws, b, names) ==
    {r \in ws.characters : r.book_id = b /\ (names = {} \/ r.canonical_name \in names)}

list_item_states(ws, b, names) ==
    {r \in ws.items : r.book_id = b /\ (names = {} \/ r.name \in names)}

\* Rows in [max(1, idx - max(window, 1)), idx), newest first, at most `limit`.
\* The result is kept as a set: (chapter_idx, id) identifies its order.
list_recent_plot_events(ws, b, chapter_idx, window) ==
    LET lo == Max({1, chapter_idx - Max({window, 1})})
        rows == {r \in ws.plot_events :
                    r.book_id = b /\ r.chapter_idx < chapter_idx /\ r.chapter_idx >= lo}
    IN IF Cardinality(rows) <= RecentEventsLimit THEN rows
       ELSE CHOOSE S \in SUBSET rows : Cardinality(S) = RecentEventsLimit
              /\ \A x \in S, y \in rows \ S :
                    x.chapter_idx > y.chapter_idx
                    \/ (x.chapter_idx = y.chapter_idx /\ x.id > y.id)

\* state_lookup.run: an empty entities/items list means "no filter".
state_lookup(ws, b, chapter_idx, entities_mentioned, items_mentioned) ==
    [character_states |-> list_character_states(ws, b, SeqToSet(entities_mentioned)),
     item_states |-> list_item_states(ws, b, SeqToSet(items_mentioned)),
     recent_events |-> list_recent_plot_events(ws, b, chapter_idx, recent_events_window)]

\* _world_state_hash over the baseline lookup (world_facts is never filled
\* by state_lookup, so it hashes as the empty list).
world_state_hash(base_lookup) ==
    sha256_text([character_states |-> base_lookup.character_states,
                 item_states |-> base_lookup.item_states,
                 recent_events |-> base_lookup.recent_events,
                 world_facts |-> {}])

\* ------------------------------------------------- snapshots and checkpoints
\* A character whitelist that misses the location column.
AllowedCharacterCols_no_location ==
    {"id", "book_id", "canonical_name", "aliases_json", "first_chapter_idx",
     "last_chapter_idx", "status", "abilities_json", "relationships_json",
     "motivation", "notes"}
\* The column whitelists of restore_world_state_checkpoint.
AllowedCharacterCols == {"id", "book_id", "canonical_name", "aliases_json",
                         "first_chapter_idx", "last_chapter_idx", "status", "location",
                         "abilities_json", "relationships_json", "motivation", "notes"}
AllowedItemCols == {"id", "book_id", "name", "owner_name", "first_chapter_idx",
                    "last_chapter_idx", "description", "status"}
\* A plot-event whitelist that misses the event_summary column.
AllowedPlotEventCols_no_summary ==
    {"id", "book_id", "chapter_idx", "involved_characters_json", "event_type", "impact"}
AllowedPlotEventCols == {"id", "book_id", "chapter_idx", "event_summary",
                         "involved_characters_json", "event_type", "impact"}
AllowedWorldFactCols == {"id", "book_id", "fact_key", "fact_value", "confidence",
                         "source_chapter_idx", "source_excerpt"}

\* Column defaults used when an insert does not name the column.
ColumnDefault(col) ==
    CASE col = "aliases_json" -> {}
      [] col = "status" -> "active"
      [] col = "confidence" -> 80
      [] col \in {"first_chapter_idx", "last_chapter_idx", "source_chapter_idx",
                  "chapter_idx", "id", "book_id"} -> NullIdx
      [] OTHER -> Null

\* list_world_facts(limit): the first `limit` rows by fact_key.
list_world_facts(ws, b, limit) ==
    LET rows == {r \in ws.world_facts : r.book_id = b}
    IN IF Cardinality(rows) <= limit THEN rows
       ELSE CHOOSE S \in SUBSET rows : Cardinality(S) = limit

\* _snapshot_world_state: the four row lists of the book, each sorted by a
\* key that is unique within the book, so a list is represented by its set.
snapshot_world_state(ws, b) ==
    LET snapshot_json ==
          [characters |-> {r \in ws.characters : r.book_id = b},
           items |-> {r \in ws.items : r.book_id = b},
           plot_events |-> {r \in ws.plot_events : r.book_id = b},
           world_facts |-> list_world_facts(ws, b, SnapshotFactsLimit)]
    IN [snapshot_json |-> snapshot_json, snapshot_hash |-> sha256_text(snapshot_json)]

\* _normalize_rows: keep the whitelisted keys, force book_id; a column that
\* is filtered out takes its default on insert.
Pick(row, col, allowed) == IF col \in allowed THEN row[col] ELSE ColumnDefault(col)

normalize_character_rows(rows, allowed, b) ==
    {[id |-> Pick(row, "id", allowed), book_id |-> b,
      canonical_name |-> Pick(row, "canonical_name", allowed),
      aliases_json |-> Pick(row, "aliases_json", allowed),
      first_chapter_idx |-> Pick(row, "first_chapter_idx", allowed),
      last_chapter_idx |-> Pick(row, "last_chapter_idx", allowed),
      status |-> Pick(row, "status", allowed),
      location |-> Pick(row, "location", allowed)] : row \in rows}

normalize_item_rows(rows, allowed, b) ==
    {[id |-> Pick(row, "id", allowed), book_id |-> b,
      name |-> Pick(row, "name", allowed),
      owner_name |-> Pick(row, "owner_name", allowed),
      first_chapter_idx |-> Pick(row, "first_chapter_idx", allowed),
      last_chapter_idx |-> Pick(row, "last_chapter_idx", allowed),
      description |-> Pick(row, "description", allowed),
      status |-> Pick(row, "status", allowed)] : row \in rows}

normalize_plot_event_rows(rows, allowed, b) ==
    {[id |-> Pick(row, "id", allowed), book_id |-> b,
      chapter_idx |-> Pick(row, "chapter_idx", allowed),
      event_summary |-> Pick(row, "event_summary", allowed),
      involved_characters_json |-> Pick(row, "involved_characters_json", allowed),
      event_type |-> Pick(row, "event_type", allowed)] : row \in rows}

normalize_world_fact_rows(rows, allowed, b) ==
    {[id |-> Pick(row, "id", allowed), book_id |-> b,
      fact_key |-> Pick(row, "fact_key", allowed),
      fact_value |-> Pick(row, "fact_value", allowed),
      confidence |-> Pick(row, "confidence", allowed),
      source_chapter_idx |-> Pick(row, "source_chapter_idx", allowed),
      source_excerpt |-> Pick(row, "source_excerpt", allowed)] : row \in rows}

\* Whether the bulk insert of new into a table holding old violates the
\* primary key.
id_clash(old, new) == \E r \in old, q \in new : r.id = q.id

\* The session's tables when a bulk insert of the restore raises: the book's
\* rows are deleted, and the tables inserted before the failing one hold the
\* snapshot rows (characters, items, plot events, world facts, in this order).
restore_world_state_checkpoint_raised(ws, checkpoint) ==
    LET payload == checkpoint.snapshot_json
        b == checkpoint.book_id
        cleared == clear_world_state_for_book(ws, b)
        characters_raise == id_clash(cleared.characters, payload.characters)
        items_raise == characters_raise \/ id_clash(cleared.items, payload.items)
        plot_events_raise == items_raise \/ id_clash(cleared.plot_events, payload.plot_events)
    IN [characters |-> cleared.characters \cup
            (IF characters_raise THEN {}
             ELSE normalize_character_rows(payload.characters, AllowedCharacterCols, b)),
        items |-> cleared.items \cup
            (IF items_raise THEN {}
             ELSE normalize_item_rows(payload.items, AllowedItemCols, b)),
        plot_events |-> cleared.plot_events \cup
            (IF plot_events_raise THEN {}
             ELSE normalize_plot_event_rows(payload.plot_events, AllowedPlotEventCols, b)),
        world_facts |-> cleared.world_facts]

\* The bulk insert carries explicit ids: it violates the primary key when a
\* row of another book holds one of them.
restore_conflicts(ws, checkpoint) ==
    LET payload == checkpoint.snapshot_json
        cleared == clear_world_state_for_book(ws, checkpoint.book_id)
        clash(old, new) == \E r \in old, q \in new : r.id = q.id
    IN \/ clash(cleared.characters, payload.characters)
       \/ clash(cleared.items, payload.items)
       \/ clash(cleared.plot_events, payload.plot_events)
       \/ clash(cleared.world_facts, payload.world_facts)

restore_world_state_checkpoint(ws, checkpoint) ==
    LET payload == checkpoint.snapshot_json
        b == checkpoint.book_id
        cleared == clear_world_state_for_book(ws, b)
    IN [characters |-> cleared.characters \cup
            normalize_character_rows(payload.characters, AllowedCharacterCols, b),
        items |-> cleared.items \cup
            normalize_item_rows(payload.items, AllowedItemCols, b),
        plot_events |-> cleared.plot_events \cup
            normalize_plot_event_rows(payload.plot_events, AllowedPlotEventCols, b),
        world_facts |-> cleared.world_facts \cup
            normalize_world_fact_rows(payload.world_facts, AllowedWorldFactCols, b)]

\* Candidates of get_latest_checkpoint_at_or_before.
checkpoints_at_or_before(checkpoints, b, chapter_idx) ==
    {c \in checkpoints : c.book_id = b /\ c.chapter_idx <= chapter_idx}

\* ORDER BY chapter_idx DESC, created_at DESC, id DESC LIMIT 1.  Checkpoint
\* rows are never deleted and created_at is set once at insert, so created_at
\* grows with id and the order is (chapter_idx, id) descending.
get_latest_checkpoint_at_or_before(checkpoints, b, chapter_idx) ==
    LET cands == checkpoints_at_or_before(checkpoints, b, chapter_idx)
    IN CHOOSE c \in cands : \A d \in cands :
          d.chapter_idx < c.chapter_idx \/ (d.chapter_idx = c.chapter_idx /\ d.id <= c.id)

\* A checkpoint write that stores nothing.
upsert_checkpoint_noop(checkpoints, ws, b, chapter_idx, step_size, snap) == checkpoints

\* upsert_checkpoint; written_world is a history field (not a column): the
\* rows of the book in the four tables at the moment of the write.
upsert_checkpoint(checkpoints, ws, b, chapter_idx, step_size, snap) ==
    IF \E c \in checkpoints : c.book_id = b /\ c.chapter_idx = chapter_idx
                              /\ c.step_size = step_size
    THEN {IF c.book_id = b /\ c.chapter_idx = chapter_idx /\ c.step_size = step_size
          THEN [c EXCEPT !.snapshot_json = snap.snapshot_json,
                         !.snapshot_hash = snap.snapshot_hash,
                         !.written_world = BookWorld(ws, b)]
          ELSE c : c \in checkpoints}
    ELSE checkpoints \cup
         {[id |-> NextId(checkpoints), book_id |-> b, chapter_idx |-> chapter_idx,
           step_size |-> step_size, snapshot_json |-> snap.snapshot_json,
           snapshot_hash |-> snap.snapshot_hash, written_world |-> BookWorld(ws, b)]}

\* ----------------------------------------------- narrations and their outputs
NARRATION_PROMPT_VERSION == "v0-mvp"
STEP_NARRATION_PROMPT_VERSION == "v1-step-aggregate"
STORYTELLER_MVP_MODEL == "storyteller-mvp"

narration_matches(n, chapter_id, prompt_version, model, input_hash) ==
    /\ n.chapter_id = chapter_id
    /\ n.prompt_version = prompt_version
    /\ n.model = model
    /\ n.input_hash = input_hash

\* get_narration: the set holds the matching row, or is empty.
get_narration(narrations, chapter_id, prompt_version, model, input_hash) ==
    {n \in narrations : narration_matches(n, chapter_id, prompt_version, model, input_hash)}

\* A plain INSERT, as the table would take it without the unique constraint.
upsert_narration_always_insert(narrations, b, chapter_id, chapter_idx, text, prompt_version, model, input_hash) ==
    narrations \cup
        {[id |-> NextId(narrations), book_id |-> b, chapter_id |-> chapter_id,
          chapter_idx |-> chapter_idx, narration_text |-> text,
          prompt_version |-> prompt_version, model |-> model, input_hash |-> input_hash]}

\* upsert_narration: INSERT ... ON CONFLICT DO NOTHING on the identity columns.
upsert_narration(narrations, b, chapter_id, chapter_idx, text, prompt_version, model, input_hash) ==
    IF get_narration(narrations, chapter_id, prompt_version, model, input_hash) # {}
    THEN narrations
    ELSE narrations \cup
         {[id |-> NextId(narrations), book_id |-> b, chapter_id |-> chapter_id,
           chapter_idx |-> chapter_idx, narration_text |-> text,
           prompt_version |-> prompt_version, model |-> model, input_hash |-> input_hash]}

get_narration_output(outputs, narration_id) == {o \in outputs : o.narration_id = narration_id}

\* upsert_narration_output: one row per narration_id, payload replaced on conflict.
upsert_narration_output(outputs, narration_id, chapter_id, payload) ==
    IF get_narration_output(outputs, narration_id) # {}
    THEN {IF o.narration_id = narration_id THEN [o EXCEPT !.payload_json = payload] ELSE o
          : o \in outputs}
    ELSE outputs \cup {[id |-> NextId(outputs), narration_id |-> narration_id,
                        chapter_id |-> chapter_id, payload_json |-> payload]}

\* get_latest_narration_output_for_chapter: newest by (updated_at, id); rows
\* are written once, so updated_at grows with id.
get_latest_narration_output_for_chapter(outputs, chapter_id) ==
    LET rows == {o \in outputs : o.chapter_id = chapter_id}
    IN {o \in rows : \A q \in rows : q.id <= o.id}

\* boundary is a history table (not in the schema): per book and chapter idx,
\* the rows of the book when the step ending at that chapter completed.
\* live_updates is a history table too: per step narration identity, the
\* rows of the book before and after the state_update of the live run.
EmptyDb == [ws |-> EmptyWorld, narrations |-> {}, narration_outputs |-> {},
            checkpoints |-> {}, boundary |-> {}, live_updates |-> {}]

record_live_update(live_updates, b, chapter_idx, input_hash, before, after) ==
    {r \in live_updates : ~(r.book_id = b /\ r.chapter_idx = chapter_idx
                              /\ r.input_hash = input_hash)}
    \cup {[book_id |-> b, chapter_idx |-> chapter_idx, input_hash |-> input_hash,
           before |-> BookWorld(before, b), after |-> BookWorld(after, b)]}

record_boundary(boundary, ws, b, chapter_idx) ==
    {r \in boundary : ~(r.book_id = b /\ r.chapter_idx = chapter_idx)}
    \cup {[book_id |-> b, chapter_idx |-> chapter_idx, world |-> BookWorld(ws, b)]}

\* The elements of s whose index satisfies Keep, in order.
FilterByIndex(s, Keep(_)) ==
    LET idx == SelectSeq([i \in 1..Len(s) |-> i], Keep)
    IN [j \in 1..Len(idx) |-> s[idx[j]]]

\* ------------------------------------------------------------- step_utils
\* step_start_for_chapter dividing the chapter idx itself.
step_start_for_chapter_off_by_one(chapter_idx, step_size) ==
    (chapter_idx \div step_size) * step_size + 1

step_start_for_chapter(chapter_idx, step_size) ==
    ((chapter_idx - 1) \div step_size) * step_size + 1

align_from_chapter(from_chapter, step_size) ==
    step_start_for_chapter(from_chapter, step_size)

\* iter_step_ranges: the while loop, then the de-duplication pass.
RECURSIVE StepRangesFrom(_, _, _)
StepRangesFrom(current, end_chapter, step_size) ==
    IF current > end_chapter THEN <<>>
    ELSE LET step_start == step_start_for_chapter(current, step_size)
             step_end == Min({end_chapter, step_start + step_size - 1})
         IN <<<<step_start, step_end>>>> \o StepRangesFrom(step_end + 1, end_chapter, step_size)

\* The ValueError guards of iter_step_ranges, checked before anything else.
iter_step_ranges_raises(start_chapter, end_chapter, step_size) ==
    \/ step_size <= 0
    \/ start_chapter <= 0
    \/ end_chapter <= 0

\* iter_step_ranges whose first range starts at start_chapter instead of at
\* the start of its step.
iter_step_ranges_unaligned_start(start_chapter, end_chapter, step_size) ==
    LET ranges_built == IF start_chapter > end_chapter THEN <<>>
                        ELSE StepRangesFrom(start_chapter, end_chapter, step_size)
    IN [i \in DOMAIN ranges_built |->
           IF i = 1 THEN <<start_chapter, ranges_built[i][2]>> ELSE ranges_built[i]]

iter_step_ranges(start_chapter, end_chapter, step_size) ==
    LET ranges == IF start_chapter > end_chapter THEN <<>>
                  ELSE StepRangesFrom(start_chapter, end_chapter, step_size)
    IN FilterByIndex(ranges, LAMBDA i : i = 1 \/ ranges[i - 1] # ranges[i])

\* _filter_chapters with to_chapter = None: the idx list of the selection.
filter_chapters(b, from_chapter) ==
    LET lo == IF from_chapter = NullIdx THEN 1 ELSE from_chapter
    IN [i \in 1..(IF LastChapterIdx(b) >= lo THEN LastChapterIdx(b) - lo + 1 ELSE 0)
          |-> lo + i - 1]

\* ------------------------------------------------- chapters and LLM replies
\* Every chapter of the model has non-empty text; the text is identified by
\* (book, idx) and never changes.
chapter_text(b, idx) == <<"text", b, idx>>

\* The characters the entity LLM reports for a chapter.
llm_entities(b, idx) ==
    IF idx % 2 = 1 THEN <<"han">> ELSE <<"Han", "mo">>

\* _fallback_entities: the CJK tokens of the text (here: one token per chapter).
fallback_entities(b, idx) == <<"mo">>

\* The narration LLM's reply for one chapter (storyteller_generate).
llm_chapter_payload(b, idx) ==
    [narration |-> "n" \o ToString(idx),
     key_events |-> <<[who |-> "han", what |-> "e" \o ToString(idx)]>>,
     character_updates |->
        IF idx % 2 = 0
        THEN <<[name |-> "Han", change_type |-> "status", before |-> "",
                after |-> "hurt" \o ToString(idx), evidence |-> "ev"]>>
        ELSE <<>>,
     new_items |->
        IF idx = 1 THEN <<[name |-> "sword", owner |-> "han", description |-> ""]>>
        ELSE <<>>]

\* The narration LLM's reply for one step aggregate (storyteller_generate_step).
llm_step_payload(b, step_start, step_end) ==
    [narration |-> "sn" \o ToString(step_end),
     key_events |-> <<[who |-> "mo", what |-> "s" \o ToString(step_end)]>>,
     character_updates |->
        <<[name |-> "han", change_type |-> "location", before |-> "",
           after |-> "camp" \o ToString(step_end), evidence |-> "ev"]>>,
     new_items |->
        IF step_start = 1 THEN <<[name |-> "sword", owner |-> "mo", description |-> "old"]>>
        ELSE <<>>]

\* _draft_narration of a non-empty text is non-empty.
draft_narration(text) == "draft"

\* A generate node without the except branch: nothing is produced when the
\* LLM call raised.
storyteller_generate_no_fallback(b, idx, llm_ok) ==
    IF llm_ok
    THEN [narration |-> llm_chapter_payload(b, idx).narration,
          key_events |-> llm_chapter_payload(b, idx).key_events,
          character_updates |-> llm_chapter_payload(b, idx).character_updates,
          new_items |-> llm_chapter_payload(b, idx).new_items]
    ELSE [narration |-> "", key_events |-> <<>>, character_updates |-> <<>>,
          new_items |-> <<>>]

\* storyteller_generate.run: the LLM reply on success (with the default key
\* event when the reply has none), the draft with one draft event on failure.
storyteller_generate(b, idx, llm_ok) ==
    LET payload == llm_chapter_payload(b, idx)
        fallback_narration == draft_narration(chapter_text(b, idx))
        narration == IF payload.narration # "" THEN payload.narration ELSE fallback_narration
    IN IF llm_ok
       THEN [narration |-> narration,
             key_events |-> IF payload.key_events = <<>> /\ narration # ""
                            THEN <<[who |-> "unknown",
                                    what |-> "generated" \o ToString(idx)]>>
                            ELSE payload.key_events,
             character_updates |-> payload.character_updates,
             new_items |-> payload.new_items]
       ELSE [narration |-> fallback_narration,
             key_events |-> <<[who |-> "unknown", what |-> "draft" \o ToString(idx)]>>,
             character_updates |-> <<>>,
             new_items |-> <<>>]

\* storyteller_generate_step.run_batch: the aggregate reply, or the draft
\* narration with no events when the LLM call raised.
run_step_batch(b, step_start, step_end, llm_ok) ==
    LET payload == llm_step_payload(b, step_start, step_end)
        fallback_narration == draft_narration(<<step_start, step_end>>)
    IN IF llm_ok
       THEN [narration |-> IF payload.narration # "" THEN payload.narration
                           ELSE fallback_narration,
             key_events |-> payload.key_events,
             character_updates |-> payload.character_updates,
             new_items |-> payload.new_items]
       ELSE [narration |-> fallback_narration, key_events |-> <<>>,
             character_updates |-> <<>>, new_items |-> <<>>]

\* -------------------------------------- consistency_check, evidence_verify
\* consistency_check.py: at most this many key events survive.
KeyEventsLimit == 20
\* storyteller.evidence_min_support_score, in percent.
evidence_min_support_score == 18

\* _build_character_alias_index: normalized name or alias -> canonical name.
build_character_alias_index(character_states) ==
    build_character_lookup(character_states).alias_to_canonical

\* consistency_check.run: drops empty, repeated and recently seen key events,
\* truncates to 20, rewrites update names to canonical names and drops no-op
\* updates.
consistency_check(st) ==
    LET recent_event_set == {r.event_summary : r \in st.recent_events} \ {""}
        evs == st.key_events
        sanitized_events ==
            FilterByIndex(evs, LAMBDA i :
                /\ evs[i].what # ""
                /\ evs[i].what \notin recent_event_set
                /\ \A j \in 1..(i - 1) : evs[j].what # evs[i].what)
        alias_index == build_character_alias_index(st.character_states)
        ups == st.character_updates
        kept == FilterByIndex(ups, LAMBDA i :
                    /\ ups[i].name # ""
                    /\ ~(ups[i].before # "" /\ ups[i].after # ""
                         /\ ups[i].before = ups[i].after))
    IN [st EXCEPT
          !.key_events = SubSeq(sanitized_events, 1,
                                Min({Len(sanitized_events), KeyEventsLimit})),
          !.character_updates =
              [i \in 1..Len(kept) |->
                  [name |-> resolve_canonical(kept[i].name, alias_index),
                   name_raw |-> kept[i].name,
                   change_type |-> IF kept[i].change_type = "" THEN "status"
                                   ELSE kept[i].change_type,
                   before |-> kept[i].before,
                   after |-> kept[i].after,
                   evidence |-> kept[i].evidence]]]

\* _best_support_score against the chapter text, in percent: the replies of
\* the LLM quote the text; the generated placeholder events ("Chapter N
\* narration generated", "Chapter N draft narration generated") share no token
\* with it.
best_support_score(who) == IF who = "unknown" THEN 0 ELSE 100

\* evidence_verify.run: keeps the claims whose score reaches the threshold.
evidence_verify(st) ==
    [st EXCEPT
       !.key_events = SelectSeq(@, LAMBDA e :
            best_support_score(e.who) >= evidence_min_support_score),
       !.character_updates = SelectSeq(@, LAMBDA u :
            best_support_score(u.name) >= evidence_min_support_score),
       !.new_items = SelectSeq(@, LAMBDA it :
            best_support_score(it.name) >= evidence_min_support_score)]

\* ------------------------------------------------------------ LLM client
\* llm endpoint `retries`.
retries == 3
\* _invoke_with_retry: attempts = max(1, retries + 1).
llm_attempts == Max({1, retries + 1})

\* ----------------------------------------------------------- input hashes
EmptyLookup == [character_states |-> {}, item_states |-> {}, recent_events |-> {}]

\* The digest is represented by the record of the hashed fields.  Style,
\* tier, overrides and routes come from the configuration file and are the
\* same in every run, so they are left out of the record.
chapter_input_hash(b, idx) ==
    sha256_text([step_size |-> 0, step_start |-> idx, step_end |-> idx,
                 base_hash |-> world_state_hash(EmptyLookup),
                 chapters |-> <<[chapter_id |-> ChapterId(b, idx), chapter_idx |-> idx,
                                 chapter_text |-> chapter_text(b, idx),
                                 entities_mentioned |-> <<>>]>>])

\* step_input_obj: the step, the baseline hash and, per chapter, its text
\* and extracted entities.
step_input_hash(b, step_size, step_start, step_end, base_hash, step_chapter_states) ==
    sha256_text([step_size |-> step_size, step_start |-> step_start, step_end |-> step_end,
                 base_hash |-> base_hash,
                 chapters |-> [i \in 1..Len(step_chapter_states) |->
                    [chapter_id |-> ChapterId(b, step_chapter_states[i].chapter_idx),
                     chapter_idx |-> step_chapter_states[i].chapter_idx,
                     chapter_text |-> chapter_text(b, step_chapter_states[i].chapter_idx),
                     entities_mentioned |-> step_chapter_states[i].entities_mentioned]]])

\* merged_entities: first occurrences, in chapter order.
RECURSIVE ConcatEntities(_)
ConcatEntities(step_chapter_states) ==
    IF step_chapter_states = <<>> THEN <<>>
    ELSE Head(step_chapter_states).entities_mentioned
            \o ConcatEntities(Tail(step_chapter_states))

merge_entities(step_chapter_states) ==
    LET all == ConcatEntities(step_chapter_states)
    IN FilterByIndex(all, LAMBDA i : all[i] # "" /\ \A j \in 1..(i - 1) : all[j] # all[i])

\* merged_memories: first occurrences by (source_id, chapter_idx,
\* source_type), in chapter order.
RECURSIVE ConcatMemories(_)
ConcatMemories(step_chapter_states) ==
    IF step_chapter_states = <<>> THEN <<>>
    ELSE Head(step_chapter_states).awakened_memories
            \o ConcatMemories(Tail(step_chapter_states))

merge_memories(step_chapter_states) ==
    LET all == ConcatMemories(step_chapter_states)
        key(m) == <<m.source_id, m.chapter_idx, m.source_type>>
    IN FilterByIndex(all, LAMBDA i : \A j \in 1..(i - 1) : key(all[j]) # key(all[i]))

\* A step payload that leaves the character updates out.
step_payload_without_updates(st, step_start, step_end) ==
    [step_start_chapter_idx |-> step_start, step_end_chapter_idx |-> step_end,
     entities_mentioned |-> st.entities_mentioned, key_events |-> st.key_events,
     character_updates |-> <<>>, new_items |-> st.new_items]

\* The NarrationOutput payload written for a step aggregate.
step_payload(st, step_start, step_end) ==
    [step_start_chapter_idx |-> step_start, step_end_chapter_idx |-> step_end,
     entities_mentioned |-> st.entities_mentioned, key_events |-> st.key_events,
     character_updates |-> st.character_updates, new_items |-> st.new_items]

\* --------------------------------------------------------- hybrid retrieval
\* storyteller.memory_top_k default.
memory_top_k == 8
\* retrieve_hybrid_memories(alpha=0.7, beta=0.2), in tenths.
alpha == 7
beta == 2

\* Scores are fractions n/d with d > 0.
Frac(n, d) == [n |-> n, d |-> d]
FracLess(a, b) == a.n * b.d < b.n * a.d
FracMax(a, b) == IF FracLess(a, b) THEN b ELSE a

\* The elements of S as a sequence, x before y when Before(x, y); Before is
\* a strict total order on S.
OrderBy(S, Before(_, _)) ==
    [i \in 1..Cardinality(S) |->
        CHOOSE x \in S : Cardinality({y \in S : Before(y, x)}) = i - 1]

\* _norm_rank: max(0, 1 - (rank - 1) / size).
norm_rank(rank, size) ==
    IF size <= 0 THEN Frac(0, 1)
    ELSE FracMax(Frac(0, 1), Frac(size - (rank - 1), Max({size, 1})))

\* _proximity_score; the callers always pass an integer chapter index.
proximity_score(current_chapter_idx, source_chapter_idx) ==
    IF source_chapter_idx >= current_chapter_idx THEN Frac(0, 1)
    ELSE Frac(1, 1 + (current_chapter_idx - source_chapter_idx))

\* The vector tables of a book after prepare_retrieval_assets: the chunks of
\* every chapter of the book (one chunk per chapter) and the committed
\* narrations of the book.  The FTS tables hold the same rows.
chunk_docs(b) ==
    {[source_type |-> "chunk", source_id |-> ChapterId(b, i), chapter_idx |-> i] :
        i \in 1..LastChapterIdx(b)}

narration_docs(narrations, b) ==
    {[source_type |-> "narration", source_id |-> n.id, chapter_idx |-> n.chapter_idx] :
        n \in {m \in narrations : m.book_id = b}}

\* similarity_search_by_vector: the k nearest rows, nearest first.  The query
\* is built from the text of chapter query_chapter_idx, so a row is nearer
\* the closer its chapter is; the chapter's own rows come first.
similarity_search_by_vector(docs, query_chapter_idx, k) ==
    LET distance(doc) == IF doc.chapter_idx >= query_chapter_idx
                         THEN doc.chapter_idx - query_chapter_idx
                         ELSE query_chapter_idx - doc.chapter_idx
        ordered == OrderBy(docs, LAMBDA x, y :
                       \/ distance(x) < distance(y)
                       \/ (distance(x) = distance(y) /\ x.source_id < y.source_id))
    IN SubSeq(ordered, 1, Min({k, Len(ordered)}))

\* _retrieve_vector_records: the dense candidates with their rank score.
retrieve_vector_records(docs, query_chapter_idx, top_k) ==
    IF top_k <= 0 THEN <<>>
    ELSE LET raw_results == similarity_search_by_vector(docs, query_chapter_idx,
                                                        Max({top_k, 1}))
         IN [rank \in 1..Len(raw_results) |->
                [source_type |-> raw_results[rank].source_type,
                 source_id |-> raw_results[rank].source_id,
                 chapter_idx |-> raw_results[rank].chapter_idx,
                 vector_rank_score |-> norm_rank(rank, Len(raw_results)),
                 keyword_rank_score |-> Frac(0, 1)]]

\* search_chunks_fts / search_narrations_fts: the matching rows with
\* chapter_idx < before_chapter_idx, best bm25 first, at most `limit`.  Every
\* row matches one of the OR-ed terms; bm25 ranks later chapters first.
search_fts(docs, before_chapter_idx, limit) ==
    LET rows == {d \in docs : d.chapter_idx < before_chapter_idx}
        ordered == OrderBy(rows, LAMBDA x, y :
                       \/ x.chapter_idx > y.chapter_idx
                       \/ (x.chapter_idx = y.chapter_idx /\ x.source_id < y.source_id))
    IN IF limit <= 0 THEN <<>> ELSE SubSeq(ordered, 1, Min({limit, Len(ordered)}))

\* A fusion step that keeps every item, whatever its chapter.
merge_without_causal_filter(aggregated, item, current_chapter_idx) ==
    IF \E i \in 1..Len(aggregated) :
          /\ aggregated[i].source_type = item.source_type
          /\ aggregated[i].source_id = item.source_id
    THEN [i \in 1..Len(aggregated) |->
            IF /\ aggregated[i].source_type = item.source_type
               /\ aggregated[i].source_id = item.source_id
            THEN [aggregated[i] EXCEPT
                    !.vector_rank_score = FracMax(@, item.vector_rank_score),
                    !.keyword_rank_score = FracMax(@, item.keyword_rank_score)]
            ELSE aggregated[i]]
    ELSE Append(aggregated, item)

\* merge (inner function of retrieve_hybrid_memories): drops an item of the
\* current or a later chapter, otherwise fuses it by (source_type, source_id)
\* with the maximum of each component score.  `aggregated` keeps the
\* insertion order of the dict.
merge(aggregated, item, current_chapter_idx) ==
    IF item.chapter_idx >= current_chapter_idx THEN aggregated
    ELSE IF \E i \in 1..Len(aggregated) :
               /\ aggregated[i].source_type = item.source_type
               /\ aggregated[i].source_id = item.source_id
         THEN [i \in 1..Len(aggregated) |->
                 IF /\ aggregated[i].source_type = item.source_type
                    /\ aggregated[i].source_id = item.source_id
                 THEN [aggregated[i] EXCEPT
                         !.vector_rank_score = FracMax(@, item.vector_rank_score),
                         !.keyword_rank_score = FracMax(@, item.keyword_rank_score)]
                 ELSE aggregated[i]]
         ELSE Append(aggregated, item)

\* for item in candidates: merge(item); for item in keyword_hits: merge(item).
RECURSIVE MergeAll(_, _, _)
MergeAll(aggregated, items, current_chapter_idx) ==
    IF items = <<>> THEN aggregated
    ELSE MergeAll(merge(aggregated, Head(items), current_chapter_idx),
                  Tail(items), current_chapter_idx)

\* score = alpha * vector + (1 - alpha) * keyword + beta * proximity.
hybrid_score(entry, current_chapter_idx) ==
    LET v == entry.vector_rank_score
        k == entry.keyword_rank_score
        p == proximity_score(current_chapter_idx, entry.chapter_idx)
    IN Frac(alpha * v.n * k.d * p.d + (10 - alpha) * k.n * v.d * p.d
                + beta * p.n * v.d * k.d,
            10 * v.d * k.d * p.d)

\* list.sort(key=score, reverse=True): stable, highest score first.
RECURSIVE SortByScore(_)
SortByScore(results) ==
    IF results = <<>> THEN <<>>
    ELSE LET best == Min({i \in 1..Len(results) : \A j \in 1..Len(results) :
                             ~FracLess(results[i].score, results[j].score)})
         IN <<results[best]>>
            \o SortByScore(FilterByIndex(results, LAMBDA i : i # best))

\* retrieve_hybrid_memories over the vector and FTS tables of book b.
retrieve_hybrid_memories(narrations, b, top_k, current_chapter_idx) ==
    IF top_k <= 0 THEN <<>>
    ELSE
    LET candidates ==
            retrieve_vector_records(chunk_docs(b), current_chapter_idx,
                                    Max({top_k * 3, top_k}))
            \o retrieve_vector_records(narration_docs(narrations, b),
                                       current_chapter_idx, Max({top_k * 2, top_k}))
        merged_hits ==
            search_fts(chunk_docs(b), current_chapter_idx, Max({top_k * 3, top_k}))
            \o search_fts(narration_docs(narrations, b), current_chapter_idx,
                          Max({top_k * 2, top_k}))
        keyword_hits ==
            [rank \in 1..Len(merged_hits) |->
                [source_type |-> merged_hits[rank].source_type,
                 source_id |-> merged_hits[rank].source_id,
                 chapter_idx |-> merged_hits[rank].chapter_idx,
                 vector_rank_score |-> Frac(0, 1),
                 keyword_rank_score |-> norm_rank(rank, Len(merged_hits))]]
        aggregated == MergeAll(<<>>, candidates \o keyword_hits, current_chapter_idx)
        results == [i \in 1..Len(aggregated) |->
                       [source_type |-> aggregated[i].source_type,
                        source_id |-> aggregated[i].source_id,
                        chapter_idx |-> aggregated[i].chapter_idx,
                        score |-> hybrid_score(aggregated[i], current_chapter_idx)]]
        sorted == SortByScore(results)
    IN SubSeq(sorted, 1, Min({top_k, Len(sorted)}))

\* Batched retrieval: one result list per query, each query filtered by its
\* own current_chapter_idx.
retrieve_hybrid_memories_batched(narrations, b, top_k, current_chapter_idxs) ==
    [q \in 1..Len(current_chapter_idxs) |->
        retrieve_hybrid_memories(narrations, b, top_k, current_chapter_idxs[q])]

\* The awakened_memories a caller keeps from the candidates: at most top_k.
awakened_memories(candidates, top_k) ==
    SubSeq(candidates, 1, Min({top_k, Len(candidates)}))

\* ------------------------------------------------------------ session scope
\* A session scope that commits whatever the block did, raised or not.
session_scope_always_commit(committed, session, raised) == session

\* session_scope: commit when the block ends normally, rollback when it raises.
session_scope_exit(committed, session, raised) ==
    IF raised THEN committed ELSE session

\* --------------------------------------------------------------- the graph
\* A graph whose state_update node precedes evidence_verify.
GraphNodes_update_before_verify ==
    <<"entity_extract", "state_lookup", "memory_retrieve", "storyteller_generate",
      "consistency_check", "state_update", "evidence_verify", "refine_narration",
      "memory_commit">>

\* build_storyteller_graph: START -> ... -> END.
GraphNodes == <<"entity_extract", "state_lookup", "memory_retrieve",
                "storyteller_generate", "consistency_check", "evidence_verify",
                "refine_narration", "state_update", "memory_commit">>

\* A step that applies state_update before the aggregate is generated.
StepPhases_update_first ==
    <<"memory_retrieve", "state_update", "run_step_batch", "consistency_check",
      "evidence_verify", "persist", "checkpoint">>

\* A live step that snapshots before it applies the step's state_update.
StepPhases_checkpoint_before_update ==
    <<"memory_retrieve", "run_step_batch", "consistency_check",
      "evidence_verify", "persist", "checkpoint", "state_update">>

\* The statements of one live step, in program order.
StepPhases == <<"memory_retrieve", "run_step_batch", "consistency_check",
                "evidence_verify", "persist", "state_update", "checkpoint">>

\* ------------------------------------------------------------------ state
VARIABLES
    config,   \* storyteller section of the configuration file
    db,       \* the committed database
    tx,       \* the database as the session of the running storytell sees it
    pc,       \* position of storytell_book
    run,      \* locals of the running storytell_book
    hist,     \* history of the behaviour
    verify,   \* one evidence_verify.run call: its inputs and its output
    client,   \* the OpenAIChatClient objects of one process, their cache and calls
    prefetch, \* the chapter loop of storytell_book with its prefetch tasks
    store,    \* the narrations table under the chapter runs of two processes
    restore,  \* one checkpoint restore inside a session scope
    shelf,    \* the narrations of a book, their readers and the FTS index
    ingest,   \* books, chapters and chunks written by ingest_book
    align,    \* the chapter range selection of storytell_book
    embed,    \* the rows to embed and the vector table of a book
    batch,    \* one call of run_batch: its inputs and what it returned
    ranges,   \* one call of iter_step_ranges: its arguments and its result
    upd,      \* state_update runs on drawn node outputs: the world state before and after
    split     \* split_text applied to drawn texts and split settings

\* The variables of storytell_book, and those of the components that are
\* exercised on their own.
mainVars == <<config, db, tx, pc, run, hist>>
sideVars == <<verify, client, prefetch, store, restore, shelf, ingest, align, embed, batch, ranges, upd, split>>
vars == <<mainVars, sideVars>>

\* No evidence_verify call is being exercised.
NoVerify == [phase |-> "off"]
\* No LLM client is being exercised.
NoClient == [phase |-> "off"]
\* No prefetching chapter loop is being exercised.
NoPrefetch == [phase |-> "off"]
\* No narrations table is being exercised.
NoStore == [phase |-> "off"]
\* No checkpoint restore is being exercised.
NoRestore == [phase |-> "off"]
\* No narrations shelf is being exercised.
NoShelf == [phase |-> "off"]
\* No ingest under way.
NoIngest == [phase |-> "off"]
\* No range selection under way.
NoAlign == [phase |-> "off"]
\* No embedding under way.
NoEmbed == [phase |-> "off"]
\* No run_batch call under way.
NoBatch == [phase |-> "off"]
\* No iter_step_ranges call under way.
NoRanges == [phase |-> "off"]
\* No state_update study under way.
NoUpd == [phase |-> "off"]
\* No split_text study under way.
NoSplit == [phase |-> "off"]

\* storyteller.step_size values explored.
StepSizes == {1, 2}
step_align == "auto"

Configs ==
    {[step_size |-> 1, step_resume_mode |-> "restore", step_checkpoint_enabled |-> TRUE]}
    \cup {[step_size |-> k, step_resume_mode |-> m, step_checkpoint_enabled |-> c] :
            k \in StepSizes \ {1}, m \in {"restore", "continue"}, c \in BOOLEAN}

\* --from-chapter values explored: none, or the start of the second step.
FromChapters(b) ==
    {NullIdx} \cup {f \in {Max({1, config.step_size}) + 1} : f <= LastChapterIdx(b)}

EmptyState ==
    [chapter_idx |-> NullIdx, entities_mentioned |-> <<>>, character_states |-> {},
     item_states |-> {}, recent_events |-> {}, key_events |-> <<>>,
     awakened_memories |-> <<>>, character_updates |-> <<>>, new_items |-> <<>>,
     narration |-> ""]

NoLLM == [route |-> "none", attempt |-> 0, result |-> "none", ret |-> "none"]

NoRun ==
    [book_id |-> 0, from_chapter |-> NullIdx, step_size |-> 1, selected |-> <<>>,
     pos |-> 1, step_ranges |-> <<>>, ri |-> 1, target |-> 0, replay_idx |-> 1,
     checkpoint |-> {}, node |-> 1, ret |-> "none", phase |-> 1, state |-> EmptyState,
     \* the nodes the graph has run on the present chapter, in order
     executed |-> <<>>,
     step_chapter_states |-> <<>>, base_lookup |-> EmptyLookup,
     input_hash |-> chapter_input_hash(0, 0), llm |-> NoLLM,
     \* StorytellStats counters
     chapters_processed |-> 0, chapters_skipped |-> 0,
     \* history of the run
     inserted |-> 0, completed |-> {}, unit_start_ws |-> EmptyWorld, llm_failed |-> {},
     llm_calls |-> [entity |-> 0, narration |-> 0, refine |-> 0],
     last_unit |-> [kind |-> "none", step_end |-> 0,
                    llm_calls |-> 0, narration_calls |-> 0]]

NoPrev == [book_id |-> 0, from_chapter |-> NullIdx, outcome |-> "none"]

Init ==
    /\ config \in Configs
    /\ db = EmptyDb
    /\ tx = EmptyDb
    /\ pc = "idle"
    /\ run = NoRun
    /\ hist = [runs |-> 0, failures |-> 0, prev |-> NoPrev,
               db_at_start |-> EmptyDb]
    /\ verify = NoVerify
    /\ client = NoClient
    /\ prefetch = NoPrefetch
    /\ store = NoStore
    /\ restore = NoRestore
    /\ shelf = NoShelf
    /\ ingest = NoIngest
    /\ align = NoAlign
    /\ embed = NoEmbed
    /\ batch = NoBatch
    /\ ranges = NoRanges
    /\ upd = NoUpd
    /\ split = NoSplit

\* ------------------------------------------------------------ storytell_book
\* The exception leaves `async with session_scope()`: rollback, then re-raise.
\* tx keeps what the session had written when it was rolled back; the next
\* run opens a new session on db.
Raise ==
    /\ db' = session_scope_exit(db, tx, TRUE)
    /\ tx' = tx
    /\ pc' = "failed"

\* storytell_book up to the mode switch: open the session, select chapters.
StartRun ==
    /\ pc \in {"idle", "committed", "failed"}
    /\ hist.runs < MaxRuns
    /\ \E b \in Books : \E from \in FromChapters(b) :
         LET step_size == Max({1, config.step_size})
             effective_from ==
                 IF step_size > 1 /\ step_align = "auto" /\ from # NullIdx
                 THEN align_from_chapter(from, step_size) ELSE from
             selected == filter_chapters(b, effective_from)
         IN /\ run' = [NoRun EXCEPT !.book_id = b, !.from_chapter = from,
                                    !.step_size = step_size, !.selected = selected,
                                    !.step_ranges = iter_step_ranges(
                                        selected[1], selected[Len(selected)], step_size),
                                    !.target = align_from_chapter(selected[1], step_size) - 1]
            /\ pc' = IF step_size > 1 THEN "ensure" ELSE "chapter_begin"
    /\ tx' = db
    /\ hist' = [hist EXCEPT !.runs = @ + 1, !.db_at_start = db,
                            !.prev = IF pc = "idle" THEN NoPrev
                                     ELSE [book_id |-> run.book_id,
                                           from_chapter |-> run.from_chapter,
                                           outcome |-> pc]]
    /\ UNCHANGED <<config, db>>
    /\ UNCHANGED sideVars

\* _ensure_world_state_at, target_chapter_idx <= 0: clear to the empty state.
EnsureClear ==
    /\ pc = "ensure"
    /\ run.target <= 0
    /\ tx' = [tx EXCEPT !.ws = clear_world_state_for_book(@, run.book_id)]
    /\ pc' = "step_begin"
    /\ UNCHANGED <<config, db, run, hist>>
    /\ UNCHANGED sideVars

\* resume_mode != "restore": the world state is left as it is.
EnsureContinue ==
    /\ pc = "ensure"
    /\ run.target > 0
    /\ config.step_resume_mode # "restore"
    /\ pc' = "step_begin"
    /\ UNCHANGED <<config, db, tx, run, hist>>
    /\ UNCHANGED sideVars

\* A checkpoint at or before the target exists: restore it.
EnsureRestore ==
    /\ pc = "ensure"
    /\ run.target > 0
    /\ config.step_resume_mode = "restore"
    /\ checkpoints_at_or_before(tx.checkpoints, run.book_id, run.target) # {}
    /\ LET checkpoint == get_latest_checkpoint_at_or_before(
                              tx.checkpoints, run.book_id, run.target)
       IN IF restore_conflicts(tx.ws, checkpoint)
          THEN \* the insert raises after the clear; the exception is caught
               \* nowhere before it leaves the session scope
               LET session == [tx EXCEPT !.ws =
                                 restore_world_state_checkpoint_raised(@, checkpoint)]
               IN /\ tx' = session
                  /\ db' = session_scope_exit(db, session, TRUE)
                  /\ pc' = "failed"
                  /\ UNCHANGED <<config, run, hist>>
          ELSE /\ tx' = [tx EXCEPT !.ws = restore_world_state_checkpoint(@, checkpoint)]
               /\ run' = [run EXCEPT !.checkpoint = {checkpoint}]
               /\ pc' = "restored"
               /\ UNCHANGED <<config, db, hist>>
    /\ UNCHANGED sideVars

\* After the restore: done when the checkpoint is at the target, otherwise
\* replay the chapters after it.
EnsureAfterRestore ==
    /\ pc = "restored"
    /\ LET checkpoint == CHOOSE c \in run.checkpoint : TRUE
       IN IF checkpoint.chapter_idx >= run.target
          THEN pc' = "step_begin" /\ run' = run
          ELSE /\ pc' = "replay"
               /\ run' = [run EXCEPT !.replay_idx = checkpoint.chapter_idx + 1]
    /\ UNCHANGED <<config, db, tx, hist>>
    /\ UNCHANGED sideVars

\* No checkpoint: clear and rebuild from chapter 1.
EnsureRebuild ==
    /\ pc = "ensure"
    /\ run.target > 0
    /\ config.step_resume_mode = "restore"
    /\ checkpoints_at_or_before(tx.checkpoints, run.book_id, run.target) = {}
    /\ tx' = [tx EXCEPT !.ws = clear_world_state_for_book(@, run.book_id)]
    /\ run' = [run EXCEPT !.replay_idx = 1]
    /\ pc' = "replay"
    /\ UNCHANGED <<config, db, hist>>
    /\ UNCHANGED sideVars

\* Rebuild loop, a chapter with a stored NarrationOutput: state_lookup and
\* state_update from its payload.
ReplayFromOutput ==
    /\ pc = "replay"
    /\ run.replay_idx <= run.target
    /\ LET b == run.book_id
           idx == run.replay_idx
           rows == get_latest_narration_output_for_chapter(
                       tx.narration_outputs, ChapterId(b, idx))
       IN /\ rows # {}
          /\ LET payload == (CHOOSE o \in rows : TRUE).payload_json
                 st0 == [EmptyState EXCEPT
                            !.chapter_idx = idx,
                            !.entities_mentioned = payload.entities_mentioned,
                            !.key_events = payload.key_events,
                            !.character_updates = payload.character_updates,
                            !.new_items = payload.new_items]
                 lk == state_lookup(tx.ws, b, idx, st0.entities_mentioned, <<>>)
                 st == [st0 EXCEPT !.character_states = lk.character_states,
                                   !.item_states = lk.item_states,
                                   !.recent_events = lk.recent_events]
             IN tx' = [tx EXCEPT !.ws = state_update(@, b, st)]
    /\ run' = [run EXCEPT !.replay_idx = @ + 1]
    /\ UNCHANGED <<config, db, pc, hist>>
    /\ UNCHANGED sideVars

\* Rebuild loop, no stored output: invoke the full chapter graph.
ReplayInvokeGraph ==
    /\ pc = "replay"
    /\ run.replay_idx <= run.target
    /\ get_latest_narration_output_for_chapter(
           tx.narration_outputs, ChapterId(run.book_id, run.replay_idx)) = {}
    /\ run' = [run EXCEPT !.state = [EmptyState EXCEPT !.chapter_idx = run.replay_idx],
                          !.node = 1, !.executed = <<>>, !.ret = "replay", !.replay_idx = @ + 1,
                          !.unit_start_ws = tx.ws]
    /\ pc' = "graph"
    /\ UNCHANGED <<config, db, tx, hist>>
    /\ UNCHANGED sideVars

\* End of the rebuild: checkpoint the rebuilt boundary when enabled.
ReplayDone ==
    /\ pc = "replay"
    /\ run.replay_idx > run.target
    /\ tx' = IF config.step_checkpoint_enabled
             THEN [tx EXCEPT !.checkpoints = upsert_checkpoint(
                      @, tx.ws, run.book_id, run.target, run.step_size,
                      snapshot_world_state(tx.ws, run.book_id))]
             ELSE tx
    /\ pc' = "step_begin"
    /\ UNCHANGED <<config, db, run, hist>>
    /\ UNCHANGED sideVars

\* ------------------------------------------------- OpenAIChatClient retries
\* One attempt of _invoke_with_retry returns a usable response.
LLMAttemptSucceeds ==
    /\ pc = "llm_call"
    /\ run' = [run EXCEPT !.llm.result = "ok", !.llm.attempt = @ + 1]
    /\ pc' = run.llm.ret
    /\ UNCHANGED <<config, db, tx, hist>>
    /\ UNCHANGED sideVars

\* One attempt fails (transport error, timeout, empty or unparsable reply):
\* retry, or raise RuntimeError after the last attempt.
LLMAttemptFails ==
    /\ pc = "llm_call"
    /\ LET last == run.llm.attempt + 1 >= llm_attempts
       IN /\ last => hist.failures < MaxFailures
          /\ run' = [run EXCEPT
                        !.llm.attempt = @ + 1,
                        !.llm.result = IF last THEN "failed" ELSE "none"]
          /\ pc' = IF last THEN run.llm.ret ELSE "llm_call"
          /\ hist' = [hist EXCEPT !.failures = IF last THEN @ + 1 ELSE @]
    /\ UNCHANGED <<config, db, tx>>
    /\ UNCHANGED sideVars

\* History: the LLM call that just returned to r failed on every attempt
\* while the chapter (or the step anchored at) `unit` was being narrated.
NoteLLMFailure(r, unit) ==
    [r EXCEPT !.llm_failed = IF run.llm.result = "failed" /\ run.ret # "replay"
                             THEN @ \cup {[unit |-> unit, route |-> run.llm.route]}
                             ELSE @]

\* A node starts an LLM call on `route` and waits for it.
InvokeLLM(route) ==
    /\ run.llm.result = "none"
    /\ run' = [run EXCEPT !.llm = [route |-> route, attempt |-> 0, result |-> "none",
                                   ret |-> pc],
                          !.llm_calls[route] = @ + 1]
    /\ pc' = "llm_call"
    /\ UNCHANGED <<config, db, tx, hist>>

\* ------------------------------------------------------- the chapter graph
AtNode(name) ==
    /\ pc = "graph"
    /\ run.node <= Len(GraphNodes)
    /\ GraphNodes[run.node] = name

\* The node returned r: follow the edge to the next node, or to END.
NodeDone(r) ==
    /\ run' = [r EXCEPT !.node = @ + 1, !.executed = Append(@, GraphNodes[r.node])]
    /\ pc' = IF r.node >= Len(GraphNodes) THEN r.ret ELSE "graph"

EntityExtractInvoke ==
    /\ AtNode("entity_extract")
    /\ InvokeLLM("entity")
    /\ UNCHANGED sideVars

\* entity_extract.run: the LLM's list, or the regex fallback when the call raised.
EntityExtractReturn ==
    /\ AtNode("entity_extract")
    /\ run.llm.result # "none"
    /\ LET b == run.book_id
           idx == run.state.chapter_idx
       IN NodeDone(NoteLLMFailure(
              [run EXCEPT !.llm = NoLLM,
                          !.state.entities_mentioned =
                              IF run.llm.result = "ok" THEN llm_entities(b, idx)
                              ELSE fallback_entities(b, idx)], idx))
    /\ UNCHANGED <<config, db, tx, hist>>
    /\ UNCHANGED sideVars

StateLookup ==
    /\ AtNode("state_lookup")
    /\ LET lk == state_lookup(tx.ws, run.book_id, run.state.chapter_idx,
                              run.state.entities_mentioned, <<>>)
       IN NodeDone([run EXCEPT !.state.character_states = lk.character_states,
                               !.state.item_states = lk.item_states,
                               !.state.recent_events = lk.recent_events])
    /\ UNCHANGED <<config, db, tx, hist>>
    /\ UNCHANGED sideVars

\* memory_retrieve.run: the hybrid retrieval for the chapter.  The vector and
\* FTS tables were built from the committed database when the run started.
\* (No prefetch: storyteller.prefetch_window is 0.)
MemoryRetrieve ==
    /\ AtNode("memory_retrieve")
    /\ LET candidates == retrieve_hybrid_memories(db.narrations, run.book_id,
                              Max({memory_top_k, 1}), run.state.chapter_idx)
       IN NodeDone([run EXCEPT !.state.awakened_memories =
                                  awakened_memories(candidates, memory_top_k)])
    /\ UNCHANGED <<config, db, tx, hist>>
    /\ UNCHANGED sideVars

StorytellerGenerateInvoke ==
    /\ AtNode("storyteller_generate")
    /\ InvokeLLM("narration")
    /\ UNCHANGED sideVars

\* storyteller_generate.run: the except branch turns a failed call into the
\* draft narration.
StorytellerGenerateReturn ==
    /\ AtNode("storyteller_generate")
    /\ run.llm.result # "none"
    /\ LET out == storyteller_generate(run.book_id, run.state.chapter_idx,
                                       run.llm.result = "ok")
       IN NodeDone(NoteLLMFailure(
              [run EXCEPT !.llm = NoLLM,
                          !.state.narration = out.narration,
                          !.state.key_events = out.key_events,
                          !.state.character_updates = out.character_updates,
                          !.state.new_items = out.new_items], run.state.chapter_idx))
    /\ UNCHANGED <<config, db, tx, hist>>
    /\ UNCHANGED sideVars

ConsistencyCheck ==
    /\ AtNode("consistency_check")
    /\ NodeDone([run EXCEPT !.state = consistency_check(@)])
    /\ UNCHANGED <<config, db, tx, hist>>
    /\ UNCHANGED sideVars

EvidenceVerify ==
    /\ AtNode("evidence_verify")
    /\ NodeDone([run EXCEPT !.state = evidence_verify(@)])
    /\ UNCHANGED <<config, db, tx, hist>>
    /\ UNCHANGED sideVars

\* refine_narration.run returns at once when there is no narration to refine.
RefineNarrationInvoke ==
    /\ AtNode("refine_narration")
    /\ run.llm.result = "none"
    /\ IF run.state.narration = ""
       THEN NodeDone(run) /\ UNCHANGED <<config, db, tx, hist>>
       ELSE InvokeLLM("refine")
    /\ UNCHANGED sideVars

\* refine_narration.run: the refined text, or the narration unchanged when
\* the call raised.
RefineNarrationReturn ==
    /\ AtNode("refine_narration")
    /\ run.llm.result # "none"
    /\ NodeDone(NoteLLMFailure(
           [run EXCEPT !.llm = NoLLM,
                       !.state.narration = IF run.llm.result = "ok"
                                           THEN "refined " \o @ ELSE @],
           run.state.chapter_idx))
    /\ UNCHANGED <<config, db, tx, hist>>
    /\ UNCHANGED sideVars

StateUpdate ==
    /\ AtNode("state_update")
    /\ tx' = [tx EXCEPT !.ws = state_update(@, run.book_id, run.state)]
    /\ NodeDone(run)
    /\ UNCHANGED <<config, db, hist>>
    /\ UNCHANGED sideVars

MemoryCommit ==
    /\ AtNode("memory_commit")
    /\ NodeDone(run)
    /\ UNCHANGED <<config, db, tx, hist>>
    /\ UNCHANGED sideVars

\* A node raises (a database error in a repo call, an error in a node body):
\* graph.ainvoke re-raises and the exception leaves storytell_book.
NodeRaises ==
    /\ pc \in {"graph", "step"}
    /\ hist.failures < MaxFailures
    /\ Raise
    /\ hist' = [hist EXCEPT !.failures = @ + 1]
    /\ UNCHANGED <<config, run>>
    /\ UNCHANGED sideVars

\* ------------------------------------------------------------ chapter mode
ChapterLoopDone ==
    /\ pc = "chapter_begin"
    /\ run.pos > Len(run.selected)
    /\ pc' = "finish"
    /\ UNCHANGED <<config, db, tx, run, hist>>
    /\ UNCHANGED sideVars

\* A narration with the chapter's input_hash exists: the chapter is skipped.
ChapterSkipExisting ==
    /\ pc = "chapter_begin"
    /\ run.pos <= Len(run.selected)
    /\ LET b == run.book_id
           idx == run.selected[run.pos]
       IN get_narration(tx.narrations, ChapterId(b, idx), NARRATION_PROMPT_VERSION,
                        STORYTELLER_MVP_MODEL, chapter_input_hash(b, idx)) # {}
    /\ run' = [run EXCEPT !.pos = @ + 1, !.chapters_skipped = @ + 1]
    /\ UNCHANGED <<config, db, tx, pc, hist>>
    /\ UNCHANGED sideVars

ChapterInvokeGraph ==
    /\ pc = "chapter_begin"
    /\ run.pos <= Len(run.selected)
    /\ LET b == run.book_id
           idx == run.selected[run.pos]
       IN /\ get_narration(tx.narrations, ChapterId(b, idx), NARRATION_PROMPT_VERSION,
                           STORYTELLER_MVP_MODEL, chapter_input_hash(b, idx)) = {}
          /\ run' = [run EXCEPT !.state = [EmptyState EXCEPT !.chapter_idx = idx],
                                !.input_hash = chapter_input_hash(b, idx),
                                !.node = 1, !.executed = <<>>, !.ret = "chapter_persist",
                                !.unit_start_ws = tx.ws,
                                !.last_unit = [NoRun.last_unit EXCEPT !.kind = "chapter",
                                                                       !.step_end = idx]]
    /\ pc' = "graph"
    /\ UNCHANGED <<config, db, tx, hist>>
    /\ UNCHANGED sideVars

\* After graph.ainvoke: persist the narration of the chapter.
ChapterPersist ==
    /\ pc = "chapter_persist"
    /\ LET b == run.book_id
           idx == run.state.chapter_idx
           narrations == upsert_narration(tx.narrations, b, ChapterId(b, idx), idx,
                             run.state.narration, NARRATION_PROMPT_VERSION,
                             STORYTELLER_MVP_MODEL, run.input_hash)
       IN IF run.state.narration = ""
          THEN /\ tx' = tx
               /\ run' = [run EXCEPT !.pos = @ + 1, !.chapters_skipped = @ + 1]
          ELSE /\ tx' = [tx EXCEPT !.narrations = narrations]
               /\ run' = [run EXCEPT
                            !.pos = @ + 1, !.chapters_processed = @ + 1,
                            !.inserted = @ + Cardinality(narrations \ tx.narrations),
                            !.completed = @ \cup (narrations \ tx.narrations)]
    /\ pc' = "chapter_begin"
    /\ UNCHANGED <<config, db, hist>>
    /\ UNCHANGED sideVars

\* The session block ends normally: commit.
Finish ==
    /\ pc = "finish"
    /\ db' = session_scope_exit(db, tx, FALSE)
    /\ tx' = db'
    /\ pc' = "committed"
    /\ UNCHANGED <<config, run, hist>>
    /\ UNCHANGED sideVars

\* --------------------------------------------------------------- step mode
StepStart == run.step_ranges[run.ri][1]
StepEnd == run.step_ranges[run.ri][2]
\* Chapters of the current step (the selection is contiguous).
StepLen == StepEnd - StepStart + 1

TotalCalls(calls) == calls.entity + calls.narration + calls.refine

StepLoopDone ==
    /\ pc = "step_begin"
    /\ run.ri > Len(run.step_ranges)
    /\ pc' = "finish"
    /\ UNCHANGED <<config, db, tx, run, hist>>
    /\ UNCHANGED sideVars

\* Top of the step loop: the baseline lookup of the step.
StepBegin ==
    /\ pc = "step_begin"
    /\ run.ri <= Len(run.step_ranges)
    /\ run' = [run EXCEPT
                 !.base_lookup = state_lookup(tx.ws, run.book_id, StepStart, <<>>, <<>>),
                 !.step_chapter_states = <<>>,
                 !.unit_start_ws = tx.ws,
                 !.last_unit = [kind |-> "step", step_end |-> StepEnd,
                                llm_calls |-> TotalCalls(run.llm_calls),
                                narration_calls |-> run.llm_calls.narration]]
    /\ pc' = "step_entities"
    /\ UNCHANGED <<config, db, tx, hist>>
    /\ UNCHANGED sideVars

\* Per-chapter entity extraction, before the cache lookup.
StepEntityExtractInvoke ==
    /\ pc = "step_entities"
    /\ Len(run.step_chapter_states) < StepLen
    /\ InvokeLLM("entity")
    /\ UNCHANGED sideVars

StepEntityExtractReturn ==
    /\ pc = "step_entities"
    /\ Len(run.step_chapter_states) < StepLen
    /\ run.llm.result # "none"
    /\ LET b == run.book_id
           idx == StepStart + Len(run.step_chapter_states)
       IN run' = NoteLLMFailure(
                 [run EXCEPT
                    !.llm = NoLLM,
                    !.step_chapter_states = Append(@,
                        [chapter_idx |-> idx,
                         entities_mentioned |->
                             IF run.llm.result = "ok" THEN llm_entities(b, idx)
                             ELSE fallback_entities(b, idx),
                         awakened_memories |-> <<>>])], StepEnd)
    /\ UNCHANGED <<config, db, tx, pc, hist>>
    /\ UNCHANGED sideVars

CurrentStepHash ==
    step_input_hash(run.book_id, run.step_size, StepStart, StepEnd,
                    world_state_hash(run.base_lookup), run.step_chapter_states)

\* existing_step_payload: the payload of the stored aggregate, if any.
ExistingStepPayload ==
    LET existing_step == get_narration(tx.narrations, ChapterId(run.book_id, StepEnd),
                             STEP_NARRATION_PROMPT_VERSION, STORYTELLER_MVP_MODEL,
                             CurrentStepHash)
    IN {o.payload_json : o \in UNION {get_narration_output(tx.narration_outputs, n.id) :
                                        n \in existing_step}}

\* Step cache hit: replay state_update from the stored payload, checkpoint
\* when enabled, continue with the next step.
StepCacheHit ==
    /\ pc = "step_entities"
    /\ Len(run.step_chapter_states) = StepLen
    /\ ExistingStepPayload # {}
    /\ LET b == run.book_id
           payload == CHOOSE p \in ExistingStepPayload : TRUE
           st0 == [EmptyState EXCEPT
                      !.chapter_idx = StepEnd,
                      !.entities_mentioned = payload.entities_mentioned,
                      !.key_events = payload.key_events,
                      !.character_updates = payload.character_updates,
                      !.new_items = payload.new_items]
           lk == state_lookup(tx.ws, b, StepEnd, st0.entities_mentioned, <<>>)
           st == [st0 EXCEPT !.character_states = lk.character_states,
                             !.item_states = lk.item_states,
                             !.recent_events = lk.recent_events]
           ws == state_update(tx.ws, b, st)
       IN /\ tx' = [tx EXCEPT
                      !.ws = ws,
                      !.checkpoints =
                          IF config.step_checkpoint_enabled /\ StepEnd > 0
                          THEN upsert_checkpoint(@, ws, b, StepEnd, run.step_size,
                                                 snapshot_world_state(ws, b))
                          ELSE @,
                      !.boundary = record_boundary(@, ws, b, StepEnd)]
          /\ run' = [run EXCEPT
                       !.ri = @ + 1, !.state = st,
                       !.chapters_skipped = @ + StepLen,
                       !.last_unit = [kind |-> "step_hit", step_end |-> StepEnd,
                                      llm_calls |-> TotalCalls(run.llm_calls) - @.llm_calls,
                                      narration_calls |->
                                          run.llm_calls.narration - @.narration_calls]]
    /\ pc' = "step_begin"
    /\ UNCHANGED <<config, db, hist>>
    /\ UNCHANGED sideVars

StepCacheMiss ==
    /\ pc = "step_entities"
    /\ Len(run.step_chapter_states) = StepLen
    /\ ExistingStepPayload = {}
    /\ run' = [run EXCEPT
                 !.input_hash = CurrentStepHash,
                 !.phase = 1,
                 !.state = [EmptyState EXCEPT
                               !.chapter_idx = StepEnd,
                               !.entities_mentioned = merge_entities(run.step_chapter_states),
                               !.character_states = run.base_lookup.character_states,
                               !.item_states = run.base_lookup.item_states,
                               !.recent_events = run.base_lookup.recent_events]]
    /\ pc' = "step"
    /\ UNCHANGED <<config, db, tx, hist>>
    /\ UNCHANGED sideVars

AtPhase(name) ==
    /\ pc = "step"
    /\ run.phase <= Len(StepPhases)
    /\ StepPhases[run.phase] = name

\* The statement returned r: go on with the next one; after the last one the
\* loop takes the next step.
PhaseDone(r) ==
    IF r.phase >= Len(StepPhases)
    THEN run' = [r EXCEPT !.ri = @ + 1, !.phase = 1] /\ pc' = "step_begin"
    ELSE run' = [r EXCEPT !.phase = @ + 1] /\ pc' = "step"

\* Batched memory retrieval of the step (step_memory_mode "per_chapter"):
\* one query per chapter of the step, each with its own chapter index.
StepMemoryRetrieve ==
    /\ AtPhase("memory_retrieve")
    /\ LET chapter_idxs == [i \in 1..Len(run.step_chapter_states) |->
                               run.step_chapter_states[i].chapter_idx]
           retrieved == retrieve_hybrid_memories_batched(
                            db.narrations, run.book_id, Max({memory_top_k, 1}),
                            chapter_idxs)
       IN PhaseDone([run EXCEPT
             !.step_chapter_states =
                 [i \in 1..Len(@) |->
                     [@[i] EXCEPT !.awakened_memories =
                         awakened_memories(retrieved[i], memory_top_k)]]])
    /\ UNCHANGED <<config, db, tx, hist>>
    /\ UNCHANGED sideVars

StepGenerateInvoke ==
    /\ AtPhase("run_step_batch")
    /\ InvokeLLM("narration")
    /\ UNCHANGED sideVars

\* run_step_batch returned: the aggregate, or the draft when the call raised.
StepGenerateReturn ==
    /\ AtPhase("run_step_batch")
    /\ run.llm.result # "none"
    /\ LET out == run_step_batch(run.book_id, StepStart, StepEnd, run.llm.result = "ok")
       IN PhaseDone(NoteLLMFailure(
              [run EXCEPT !.llm = NoLLM,
                          !.state.narration = out.narration,
                          !.state.key_events = out.key_events,
                          !.state.character_updates = out.character_updates,
                          !.state.new_items = out.new_items,
                          !.state.awakened_memories =
                              merge_memories(run.step_chapter_states)], StepEnd))
    /\ UNCHANGED <<config, db, tx, hist>>
    /\ UNCHANGED sideVars

StepConsistencyCheck ==
    /\ AtPhase("consistency_check")
    /\ PhaseDone([run EXCEPT !.state = consistency_check(@)])
    /\ UNCHANGED <<config, db, tx, hist>>
    /\ UNCHANGED sideVars

StepEvidenceVerify ==
    /\ AtPhase("evidence_verify")
    /\ PhaseDone([run EXCEPT !.state = evidence_verify(@)])
    /\ UNCHANGED <<config, db, tx, hist>>
    /\ UNCHANGED sideVars

\* upsert_narration on the anchor chapter, then upsert_narration_output.
StepPersist ==
    /\ AtPhase("persist")
    /\ LET b == run.book_id
           anchor_chapter_id == ChapterId(b, StepEnd)
           narrations == upsert_narration(tx.narrations, b, anchor_chapter_id, StepEnd,
                             run.state.narration, STEP_NARRATION_PROMPT_VERSION,
                             STORYTELLER_MVP_MODEL, run.input_hash)
           narration_row == get_narration(narrations, anchor_chapter_id,
                                STEP_NARRATION_PROMPT_VERSION, STORYTELLER_MVP_MODEL,
                                run.input_hash)
           outputs == upsert_narration_output(tx.narration_outputs,
                          (CHOOSE n \in narration_row : TRUE).id, anchor_chapter_id,
                          step_payload(run.state, StepStart, StepEnd))
       IN IF run.state.narration = ""
          THEN /\ tx' = tx
               /\ run' = [run EXCEPT !.ri = @ + 1, !.phase = 1,
                                     !.chapters_skipped = @ + StepLen]
               /\ pc' = "step_begin"
          ELSE /\ tx' = [tx EXCEPT !.narrations = narrations,
                                   !.narration_outputs = outputs]
               /\ PhaseDone([run EXCEPT
                               !.chapters_processed = @ + StepLen,
                               !.inserted = @ + Cardinality(narrations \ tx.narrations),
                               !.completed = @ \cup (narrations \ tx.narrations)])
    /\ UNCHANGED <<config, db, hist>>
    /\ UNCHANGED sideVars

\* state_lookup, then state_update once for the step aggregate.
StepStateUpdate ==
    /\ AtPhase("state_update")
    /\ LET b == run.book_id
           lk == state_lookup(tx.ws, b, run.state.chapter_idx,
                              run.state.entities_mentioned, <<>>)
           st == [run.state EXCEPT !.character_states = lk.character_states,
                                   !.item_states = lk.item_states,
                                   !.recent_events = lk.recent_events]
       IN /\ tx' = [tx EXCEPT !.ws = state_update(@, b, st),
                               !.live_updates =
                                   record_live_update(@, b, StepEnd, run.input_hash, tx.ws,
                                                      state_update(tx.ws, b, st))]
          /\ PhaseDone([run EXCEPT !.state = st])
    /\ UNCHANGED <<config, db, hist>>
    /\ UNCHANGED sideVars

StepCheckpoint ==
    /\ AtPhase("checkpoint")
    /\ tx' = [tx EXCEPT
                !.checkpoints =
                    IF config.step_checkpoint_enabled /\ StepEnd > 0
                    THEN upsert_checkpoint(@, tx.ws, run.book_id, StepEnd, run.step_size,
                                           snapshot_world_state(tx.ws, run.book_id))
                    ELSE @,
                !.boundary = record_boundary(@, tx.ws, run.book_id, StepEnd)]
    /\ PhaseDone(run)
    /\ UNCHANGED <<config, db, hist>>
    /\ UNCHANGED sideVars

Next ==
    \/ StartRun
    \/ EnsureClear \/ EnsureContinue \/ EnsureRestore \/ EnsureAfterRestore
    \/ EnsureRebuild \/ ReplayFromOutput \/ ReplayInvokeGraph \/ ReplayDone
    \/ LLMAttemptSucceeds \/ LLMAttemptFails
    \/ EntityExtractInvoke \/ EntityExtractReturn \/ StateLookup \/ MemoryRetrieve
    \/ StorytellerGenerateInvoke \/ StorytellerGenerateReturn
    \/ ConsistencyCheck \/ EvidenceVerify
    \/ RefineNarrationInvoke \/ RefineNarrationReturn
    \/ StateUpdate \/ MemoryCommit \/ NodeRaises
    \/ ChapterLoopDone \/ ChapterSkipExisting \/ ChapterInvokeGraph \/ ChapterPersist
    \/ StepLoopDone \/ StepBegin \/ StepEntityExtractInvoke \/ StepEntityExtractReturn
    \/ StepCacheHit \/ StepCacheMiss \/ StepMemoryRetrieve
    \/ StepGenerateInvoke \/ StepGenerateReturn
    \/ StepConsistencyCheck \/ StepEvidenceVerify
    \/ StepPersist \/ StepStateUpdate \/ StepCheckpoint
    \/ Finish

Spec == Init /\ [][Next]_vars


\* ===================================================== evidence_verify.run
\* storytell_book is not running while a component is exercised on its own.
MainIdle ==
    /\ config = [step_size |-> 1, step_resume_mode |-> "restore",
                 step_checkpoint_enabled |-> TRUE]
    /\ db = EmptyDb
    /\ tx = EmptyDb
    /\ pc = "idle"
    /\ run = NoRun
    /\ hist = [runs |-> 0, failures |-> 0, prev |-> NoPrev,
               db_at_start |-> EmptyDb]

\* Texts are sequences of words.
\* storyteller.evidence_min_support_score is a float in [0, 1]; the model
\* keeps it in units of 1/MinScoreUnit.
MinScoreUnit == 100000
MinScores == {0, 18000, 33333, 50000, 100000}
\* round(score, 4) keeps units of 1/RoundUnit.
RoundUnit == 10000
\* storyteller.evidence_max_snippets default.
evidence_max_snippets == 3

\* _normalize and the " ".join of the non-empty parts: the claim text.
JoinParts(parts) == SelectSeq(parts, LAMBDA p : p # "")

claim_text_from_event(event) == JoinParts(<<event.who, event.what, event.where>>)
claim_text_from_update(update) ==
    JoinParts(<<update.name, update.change_type, update.after, update.evidence>>)
claim_text_from_item(item) == JoinParts(<<item.name, item.owner, item.description>>)

\* _tokens: the set of words of a text.
tokens(text) == {text[i] : i \in 1..Len(text)}

\* `needle in haystack` on texts: a contiguous run of words.
Contains(haystack, needle) ==
    \E i \in 1..(Len(haystack) - Len(needle) + 1) :
        SubSeq(haystack, i, i + Len(needle) - 1) = needle

\* _build_sources: the chapter text, then the first evidence_max_snippets
\* awakened memories with a text.
build_sources(st) ==
    LET mems == SubSeq(st.awakened_memories, 1,
                       Min({Len(st.awakened_memories), evidence_max_snippets}))
        chapter == IF st.chapter_text = <<>> THEN <<>>
                   ELSE <<[source_type |-> "chapter", text |-> st.chapter_text]>>
    IN chapter \o
       [i \in 1..Len(SelectSeq(mems, LAMBDA m : m.text # <<>>)) |->
           LET m == SelectSeq(mems, LAMBDA x : x.text # <<>>)[i]
           IN [source_type |-> IF m.source_type = "" THEN "memory" ELSE m.source_type,
               text |-> m.text]]

\* One source of _best_support_score's loop: a key phrase or the whole claim
\* found in the source scores 1 and ends the search; otherwise the share of
\* the claim's tokens found in the source.
SourceExact(claim_text, source, key_phrases) ==
    \/ \E p \in key_phrases : p # "" /\ p \in tokens(source.text)
    \/ Contains(source.text, claim_text)

SourceScore(claim_text, source) ==
    Frac(Cardinality(tokens(claim_text) \cap tokens(source.text)),
         Max({Cardinality(tokens(claim_text)), 1}))

\* _best_support_score: [score, source_type]; the first source with an exact
\* hit wins, else the first source with the highest positive score.
RECURSIVE BestSupportFrom(_, _, _, _, _)
BestSupportFrom(claim_text, sources, key_phrases, i, best) ==
    IF i > Len(sources) THEN best
    ELSE IF SourceExact(claim_text, sources[i], key_phrases)
    THEN [score |-> Frac(1, 1), source_type |-> sources[i].source_type]
    ELSE LET score == SourceScore(claim_text, sources[i])
         IN BestSupportFrom(claim_text, sources, key_phrases, i + 1,
                IF FracLess(best.score, score)
                THEN [score |-> score, source_type |-> sources[i].source_type]
                ELSE best)

best_support_score_of(claim_text, sources, key_phrases) ==
    IF claim_text = <<>> THEN [score |-> Frac(0, 1), source_type |-> ""]
    ELSE BestSupportFrom(claim_text, sources, key_phrases, 1,
                         [score |-> Frac(0, 1), source_type |-> ""])

\* round(score, 4), in units of 1/RoundUnit: to nearest, ties to even.
round4(score) ==
    LET q == (score.n * RoundUnit) \div score.d
        r == (score.n * RoundUnit) % score.d
    IN IF 2 * r < score.d THEN q
       ELSE IF 2 * r > score.d THEN q + 1
       ELSE IF q % 2 = 0 THEN q ELSE q + 1

\* score < min_score, min_score in units of 1/MinScoreUnit.
BelowMinScore(score, min_score) == score.n * MinScoreUnit < min_score * score.d

\* One of the three loops of evidence_verify.run: the claims whose score
\* reaches min_score, each with its source type and its rounded score.
Supported(claims, ClaimText(_), KeyPhrases(_), sources, min_score) ==
    LET Best(c) == best_support_score_of(ClaimText(c), sources, KeyPhrases(c))
        kept == SelectSeq(claims, LAMBDA c : ~BelowMinScore(Best(c).score, min_score))
    IN [i \in 1..Len(kept) |->
           [claim |-> kept[i],
            evidence_source_type |-> Best(kept[i]).source_type,
            evidence_score |-> round4(Best(kept[i]).score)]]

\* evidence_verify.run with the threshold of the configuration.
evidence_verify_run(st, min_score) ==
    LET sources == build_sources(st)
        supported_events ==
            Supported(st.key_events, claim_text_from_event,
                      LAMBDA e : {e.what}, sources, min_score)
        supported_updates ==
            Supported(st.character_updates, claim_text_from_update,
                      LAMBDA u : {u.evidence, u.after}, sources, min_score)
        supported_items ==
            Supported(st.new_items, claim_text_from_item,
                      LAMBDA it : {it.name, it.description, it.owner}, sources, min_score)
        total_claims == Len(st.key_events) + Len(st.character_updates) + Len(st.new_items)
        supported_claims ==
            Len(supported_events) + Len(supported_updates) + Len(supported_items)
    IN [key_events |-> supported_events,
        character_updates |-> supported_updates,
        new_items |-> supported_items,
        evidence_report |->
            [total_claims |-> total_claims,
             supported_claims |-> supported_claims,
             unsupported_claims |-> Max({0, total_claims - supported_claims})]]

\* The states handed to evidence_verify.
VerifyEvents ==
    {[who |-> w, what |-> a, where |-> p] :
        w \in {"", "han", "li"}, a \in {"", "falls", "draws"}, p \in {"", "camp"}}
VerifyUpdates ==
    {[name |-> n, change_type |-> "status", after |-> a, evidence |-> ""] :
        n \in {"han", "li"}, a \in {"", "hurt"}}
VerifyItems ==
    {[name |-> "sword", owner |-> o, description |-> ""] : o \in {"", "han", "li"}}
VerifyTexts ==
    {<<"han">>, <<"han", "camp">>, <<"li", "falls">>, <<"sword", "hurt">>}
VerifyMemories ==
    {<<>>, <<[source_type |-> "narration", text |-> <<"li", "draws">>]>>}

AtMostOne(S) == {<<>>} \cup {<<x>> : x \in S}

VerifyInit ==
    /\ MainIdle
    /\ client = NoClient
    /\ prefetch = NoPrefetch
    /\ store = NoStore
    /\ restore = NoRestore
    /\ shelf = NoShelf
    /\ ingest = NoIngest
    /\ align = NoAlign
    /\ embed = NoEmbed
    /\ batch = NoBatch
    /\ ranges = NoRanges
    /\ upd = NoUpd
    /\ split = NoSplit
    /\ \E min_score \in MinScores, text \in VerifyTexts, mems \in VerifyMemories,
          evs \in AtMostOne(VerifyEvents), ups \in AtMostOne(VerifyUpdates),
          its \in AtMostOne(VerifyItems) :
            verify = [phase |-> "called",
                      min_score |-> min_score,
                      state |-> [chapter_text |-> text, awakened_memories |-> mems,
                                 key_events |-> evs, character_updates |-> ups,
                                 new_items |-> its]]

\* evidence_verify.run returns.
VerifyRun ==
    /\ verify.phase = "called"
    /\ verify' = [phase |-> "returned",
                  min_score |-> verify.min_score,
                  state |-> verify.state,
                  out |-> evidence_verify_run(verify.state, verify.min_score)]
    /\ UNCHANGED <<mainVars, client, prefetch, store, restore, shelf, ingest, align, embed, batch, ranges, upd, split>>

VerifyNext == VerifyRun

VerifySpec == VerifyInit /\ [][VerifyNext]_vars


\* ======================================================== OpenAIChatClient
\* Endpoint `retries` values explored; the backoff reaches its cap at the
\* fifth retry.
MaxRetries == 5
\* Calls each task issues.
MaxCallsPerTask == 2

\* _build_chat_model: ChatOpenAI(max_retries=0), the SDK repeats no request.
sdk_max_retries == 0
\* Backoff of _invoke_with_retry: min(0.5 * 2**attempt, 4.0) s, in ms.
backoff_base_ms == 500
backoff_cap_ms == 4000

\* resolve_chat_route: with only routes.storyteller_chat set, every
\* storyteller route resolves to that one endpoint.
Routes == {"storyteller_entity", "storyteller_narration", "storyteller_refine"}
resolve_chat_route(route) == "storyteller_chat"

\* The coroutines that issue LLM calls on the event loop: storytell_book and
\* a _prefetch_state task.
Tasks == {"main", "prefetch"}

\* The call each node makes: client (route), blocking or awaited, parser.
\* entity_extract: complete_json; storyteller_generate: complete_structured;
\* refine_narration: complete_structured_async; run_batch (step mode):
\* complete_json_async.
NodeCalls ==
    {[node |-> "entity_extract", route |-> "storyteller_entity",
      variant |-> "sync", kind |-> "json"],
     [node |-> "storyteller_generate", route |-> "storyteller_narration",
      variant |-> "sync", kind |-> "structured"],
     [node |-> "refine_narration", route |-> "storyteller_refine",
      variant |-> "async", kind |-> "structured"],
     [node |-> "run_batch", route |-> "storyteller_narration",
      variant |-> "async", kind |-> "json"]}

\* The chapter loop runs the chapter graph and, with prefetch_window > 0,
\* _prefetch_state tasks, which run entity_extract; the step loop runs
\* entity_extract and run_batch and starts no task.
TaskCalls(t, mode) ==
    {c \in NodeCalls :
        IF mode = "chapter"
        THEN IF t = "prefetch" THEN c.node = "entity_extract"
             ELSE c.node \in {"entity_extract", "storyteller_generate", "refine_narration"}
        ELSE t = "main" /\ c.node \in {"entity_extract", "run_batch"}}

\* make_cache_key starts with the node's name: one key per route here.
make_cache_key(route) == route

\* A cached text either parses as its caller's schema or does not.
CacheValues == {"parseable", "unparseable"}

\* SimpleCache.get / set / delete on the key -> value table (Null: no row).
cache_get(cache, key) == [hit |-> cache[key] # Null, value |-> cache[key]]
cache_set(cache, key, value) == [cache EXCEPT ![key] = value]
cache_delete_noop(cache, key) == cache
cache_delete(cache, key) == [cache EXCEPT ![key] = Null]

\* A parser that accepts every text the provider returns.
parses_any_text(value) == value \in {"parseable", "unparseable"}

\* parser(text) / schema.model_validate_json(text) succeeds.
parses(value) == value = "parseable"

\* attempts = max(1, retries + 1)
attempts_unbounded(r) == r + 2
attempts(r) == Max({1, r + 1})

RECURSIVE Pow2(_)
Pow2(n) == IF n = 0 THEN 1 ELSE 2 * Pow2(n - 1)

\* The sleep after failed attempt number `attempt` (from 0).
backoff(attempt) == Min({backoff_base_ms * Pow2(attempt), backoff_cap_ms})

\* asyncio.Semaphore(max(1, max_concurrency)) of one client.
semaphore_size(max_concurrency) == Max({1, max_concurrency})

NoCall ==
    [pc |-> "idle", route |-> "", variant |-> "", kind |-> "", key |-> "",
     attempt |-> 0, requests |-> 0, sleeps |-> <<>>, outcome |-> "",
     served |-> "none", read_unparseable |-> FALSE, deleted_on_read |-> FALSE,
     only_parse_failures |-> TRUE]


\* Endpoint settings explored: retries and max_concurrency of storyteller_chat.
RetryValues == {0, 1, MaxRetries}
ConcurrencyValues == {1, 2}

\* The cache file when the process starts: empty, or one row left by an
\* earlier process.
InitialCaches ==
    {[k \in Routes |-> Null]}
    \cup {[k \in Routes |-> IF k = r THEN v ELSE Null] : r \in Routes, v \in CacheValues}

ClientInit ==
    /\ MainIdle
    /\ verify = NoVerify
    /\ prefetch = NoPrefetch
    /\ store = NoStore
    /\ restore = NoRestore
    /\ shelf = NoShelf
    /\ ingest = NoIngest
    /\ align = NoAlign
    /\ embed = NoEmbed
    /\ batch = NoBatch
    /\ ranges = NoRanges
    /\ upd = NoUpd
    /\ split = NoSplit
    /\ \E r \in RetryValues, mc \in ConcurrencyValues, c \in InitialCaches,
          mode \in {"chapter", "step"} :
         client = [phase |-> "on",
                   mode |-> mode,
                   retries |-> r,
                   max_concurrency |-> mc,
                   cache |-> c,
                   calls |-> [t \in Tasks |-> NoCall],
                   started |-> [t \in Tasks |-> 0],
                   sem |-> [route \in Routes |-> 0],
                   loop |-> "free"]

\* The attempts of LLM calls that are at the endpoint right now.
InFlight(endpoint) ==
    {t \in Tasks : /\ client.calls[t].pc = "inflight"
                   /\ resolve_chat_route(client.calls[t].route) = endpoint}

\* complete_json / complete_structured (and _async) up to the first attempt:
\* a cached text that parses is returned; one that does not is deleted and
\* the call goes on to the provider. A blocking call keeps the event loop
\* until it returns.
Complete(t) ==
    /\ client.phase = "on"
    /\ client.loop = "free"
    /\ client.calls[t].pc \in {"idle", "done", "raised"}
    /\ client.started[t] < MaxCallsPerTask
    /\ \E nc \in TaskCalls(t, client.mode) :
         LET key == make_cache_key(nc.route)
             cached == cache_get(client.cache, key)
             call == [NoCall EXCEPT !.route = nc.route, !.variant = nc.variant,
                                    !.kind = nc.kind, !.key = key]
         IN IF cached.hit /\ parses(cached.value)
            THEN client' = [client EXCEPT
                    !.calls[t] = [call EXCEPT !.pc = "done", !.served = "cache",
                                              !.outcome = cached.value],
                    !.started[t] = @ + 1]
            ELSE LET cache_after == IF cached.hit THEN cache_delete(client.cache, key)
                                    ELSE client.cache
                 IN client' = [client EXCEPT
                        !.cache = cache_after,
                        !.calls[t] = [call EXCEPT
                            !.pc = "ready",
                            !.read_unparseable = cached.hit,
                            !.deleted_on_read = cached.hit /\ cache_after[key] = Null],
                        !.started[t] = @ + 1,
                        !.loop = IF nc.variant = "sync" THEN t ELSE "free"]
    /\ UNCHANGED <<mainVars, verify, prefetch, store, restore, shelf, ingest, align, embed, batch, ranges, upd, split>>

\* One attempt is sent: model.invoke directly, or _invoke_on_worker under the
\* client's semaphore once it has a free slot and the backoff is over.
AttemptSend(t) ==
    LET call == client.calls[t]
    IN /\ client.phase = "on"
       /\ call.pc \in {"ready", "backoff"}
       /\ IF call.variant = "sync"
          THEN /\ client.loop = t
               /\ client' = [client EXCEPT
                     !.calls[t].pc = "inflight",
                     !.calls[t].requests = @ + 1]
          ELSE /\ client.loop = "free"
               /\ client.sem[call.route] < semaphore_size(client.max_concurrency)
               /\ client' = [client EXCEPT
                     !.calls[t].pc = "inflight",
                     !.calls[t].requests = @ + 1,
                     !.sem[call.route] = @ + 1]
       /\ UNCHANGED <<mainVars, verify, prefetch, store, restore, shelf, ingest, align, embed, batch, ranges, upd, split>>

\* The provider answers the attempt: a text that parses, a text that does
\* not, or an error (transport error, timeout, empty response), which the
\* SDK would repeat max_retries times first.
AttemptReply(t) ==
    /\ client.phase = "on"
    /\ client.calls[t].pc = "inflight"
    /\ \E outcome \in {"parseable", "unparseable", "error"} :
         client' = [client EXCEPT
            !.calls[t].pc = "replied",
            !.calls[t].outcome = outcome,
            !.calls[t].requests = IF outcome = "error" THEN @ + sdk_max_retries ELSE @]
    /\ UNCHANGED <<mainVars, verify, prefetch, store, restore, shelf, ingest, align, embed, batch, ranges, upd, split>>

\* The rest of the loop body of _invoke_with_retry / _ainvoke_with_retry:
\* a parsed text is cached and returned; a failure sleeps and goes round
\* again, or raises after the last attempt.
AttemptReturn(t) ==
    LET call == client.calls[t]
        released == IF call.variant = "async"
                    THEN [client.sem EXCEPT ![call.route] = @ - 1]
                    ELSE client.sem
    IN /\ client.phase = "on"
       /\ call.pc = "replied"
       /\ client.loop = IF call.variant = "sync" THEN t ELSE "free"
       /\ IF parses(call.outcome)
          THEN client' = [client EXCEPT
                  !.cache = cache_set(@, call.key, call.outcome),
                  !.calls[t].pc = "done",
                  !.calls[t].served = "live",
                  !.sem = released,
                  !.loop = "free"]
          ELSE IF call.attempt = attempts(client.retries) - 1
          THEN client' = [client EXCEPT
                  !.calls[t].pc = "raised",
                  !.calls[t].only_parse_failures = (@ /\ call.outcome = "unparseable"),
                  !.sem = released,
                  !.loop = "free"]
          ELSE client' = [client EXCEPT
                  !.calls[t].pc = "backoff",
                  !.calls[t].only_parse_failures = (@ /\ call.outcome = "unparseable"),
                  !.calls[t].sleeps = Append(@, backoff(call.attempt)),
                  !.calls[t].attempt = @ + 1,
                  !.sem = released]
       /\ UNCHANGED <<mainVars, verify, prefetch, store, restore, shelf, ingest, align, embed, batch, ranges, upd, split>>

ClientNext ==
    \E t \in Tasks :
        \/ Complete(t)
        \/ AttemptSend(t)
        \/ AttemptReply(t)
        \/ AttemptReturn(t)

ClientSpec == ClientInit /\ [][ClientNext]_vars


\* ============================================= chapter loop with prefetch
\* storyteller.prefetch_window values explored.
PrefetchWindows == {1, 2}

\* The asyncio task that prefetches chapter c; storytell_book is "main".
TaskName(c) == "prefetch" \o ToString(c)

\* A prefetch task that has been created and has not finished.
TaskInFlight == {"created", "list_chunks", "extract"}

\* _schedule_prefetch(current_idx): the chapters after the current one, up
\* to prefetch_window of them, that have no task yet.
schedule_prefetch(position, window, prefetch_tasks) ==
    {c \in (position + 1)..(position + window) :
        c <= NumChapters /\ c \notin prefetch_tasks}

\* The keys a node's result adds to the chapter state.
NodeOutputKeys(node) ==
    CASE node = "entity_extract" ->
             {"entities_mentioned", "locations_mentioned", "items_mentioned"}
      [] node = "state_lookup" -> {"character_states", "item_states", "recent_events"}
      [] node = "memory_retrieve" -> {"awakened_memories"}
      [] OTHER -> {}

\* The keys pre_state starts with.
PreStateKeys ==
    {"book_id", "chapter_id", "chapter_idx", "chapter_title", "chapter_text", "tier",
     "storyteller_overrides"}

\* A _prefetch_state that also ran state_lookup.
prefetch_state_nodes_with_lookup == <<"entity_extract", "state_lookup", "memory_retrieve">>

\* The nodes _prefetch_state runs on pre_state, in order.
prefetch_state_nodes == <<"entity_extract", "memory_retrieve">>

\* The keys of the dict a finished _prefetch_state returns.
prefetch_state_keys ==
    PreStateKeys \cup UNION {NodeOutputKeys(prefetch_state_nodes[i]) :
                                i \in 1..Len(prefetch_state_nodes)}

\* What the chapter loop takes from a prefetched state: chapter_text and
\* tier, and the keys it copies into the graph's input state.
PrefetchedKeysUsed ==
    {"chapter_text", "tier", "entities_mentioned", "locations_mentioned", "items_mentioned",
     "entity_llm_calls", "entity_llm_cache_hit", "awakened_memories"}

\* The keys of the database's world state that state_lookup reads into the
\* chapter state.
WorldStateKeys == NodeOutputKeys("state_lookup")

\* The chapters whose state_update has run, by the writes so far.
UpdatedChapters(writes) ==
    {writes[i].chapter : i \in {j \in 1..Len(writes) : writes[j].op = "state_update"}}

PrefetchInit ==
    /\ MainIdle
    /\ verify = NoVerify
    /\ client = NoClient
    /\ store = NoStore
    /\ restore = NoRestore
    /\ shelf = NoShelf
    /\ ingest = NoIngest
    /\ align = NoAlign
    /\ embed = NoEmbed
    /\ batch = NoBatch
    /\ ranges = NoRanges
    /\ upd = NoUpd
    /\ split = NoSplit
    /\ \E w \in PrefetchWindows :
         prefetch = [phase |-> "on",
                     prefetch_window |-> w,
                     position |-> 1,
                     pc |-> "loop_top",
                     outcome |-> "running",
                     tasks |-> [c \in 1..NumChapters |-> "none"],
                     prefetch_tasks |-> {},
                     session |-> "open",
                     using |-> {},
                     writes |-> <<>>,
                     from_prefetch |-> {},
                     lookups |-> <<>>]

\* Top of the chapter loop: schedule the lookahead tasks, take the task of
\* this chapter out of prefetch_tasks and await it, or read the chapter's
\* chunks through the run's session.
LoopTop ==
    LET p == prefetch
        new == schedule_prefetch(p.position, p.prefetch_window, p.prefetch_tasks)
        scheduled == p.prefetch_tasks \cup new
    IN /\ p.phase = "on" /\ p.outcome = "running"
       /\ p.pc = "loop_top" /\ p.position <= NumChapters
       /\ prefetch' = [p EXCEPT
             !.tasks = [c \in 1..NumChapters |-> IF c \in new THEN "created" ELSE @[c]],
             !.prefetch_tasks = scheduled \ {p.position},
             !.pc = IF p.position \in scheduled THEN "await_prefetch" ELSE "chapter_text",
             !.using = IF p.position \in scheduled THEN @ ELSE @ \cup {"main"},
             !.from_prefetch = {}]
       /\ UNCHANGED <<mainVars, verify, client, store, restore, shelf, ingest, align, embed, batch, ranges, upd, split>>

\* `await prefetch_task` returns: the prefetched state is used, or after a
\* failed task the chapter is read synchronously.
AwaitPrefetch ==
    LET p == prefetch
    IN /\ p.phase = "on" /\ p.outcome = "running"
       /\ p.pc = "await_prefetch"
       /\ p.tasks[p.position] \in {"done", "failed"}
       /\ prefetch' = [p EXCEPT
             !.pc = IF p.tasks[p.position] = "done" THEN "graph" ELSE "chapter_text",
             !.using = IF p.tasks[p.position] = "done" THEN @ ELSE @ \cup {"main"},
             !.from_prefetch = IF p.tasks[p.position] = "done"
                               THEN prefetch_state_keys \cap PrefetchedKeysUsed ELSE {}]
       /\ UNCHANGED <<mainVars, verify, client, store, restore, shelf, ingest, align, embed, batch, ranges, upd, split>>

\* _chapter_text(repo, chapter.id) returns.
ChapterText ==
    /\ prefetch.phase = "on" /\ prefetch.outcome = "running"
    /\ prefetch.pc = "chapter_text"
    /\ prefetch' = [prefetch EXCEPT !.pc = "graph", !.using = @ \ {"main"}]
    /\ UNCHANGED <<mainVars, verify, client, store, restore, shelf, ingest, align, embed, batch, ranges, upd, split>>

\* graph.ainvoke up to state_lookup, which reads through the run's session.
GraphStateLookup ==
    /\ prefetch.phase = "on" /\ prefetch.outcome = "running"
    /\ prefetch.pc = "graph"
    /\ prefetch' = [prefetch EXCEPT
          !.pc = "state_lookup", !.using = @ \cup {"main"},
          !.lookups = Append(@, [chapter |-> prefetch.position, by |-> "main",
                                 updated |-> UpdatedChapters(prefetch.writes)])]
    /\ UNCHANGED <<mainVars, verify, client, store, restore, shelf, ingest, align, embed, batch, ranges, upd, split>>

\* state_lookup returns; the nodes up to refine_narration write nothing.
GraphGenerate ==
    /\ prefetch.phase = "on" /\ prefetch.outcome = "running"
    /\ prefetch.pc = "state_lookup"
    /\ prefetch' = [prefetch EXCEPT !.pc = "state_update", !.using = @ \ {"main"}]
    /\ UNCHANGED <<mainVars, verify, client, store, restore, shelf, ingest, align, embed, batch, ranges, upd, split>>

\* state_update and memory_commit: the first writes of the chapter.
GraphStateUpdate ==
    /\ prefetch.phase = "on" /\ prefetch.outcome = "running"
    /\ prefetch.pc = "state_update"
    /\ prefetch' = [prefetch EXCEPT
          !.pc = "persist",
          !.writes = Append(@, [chapter |-> prefetch.position, op |-> "state_update",
                                by |-> "main"])]
    /\ UNCHANGED <<mainVars, verify, client, store, restore, shelf, ingest, align, embed, batch, ranges, upd, split>>

\* upsert_narration, then the next chapter.
PersistNarration ==
    /\ prefetch.phase = "on" /\ prefetch.outcome = "running"
    /\ prefetch.pc = "persist"
    /\ prefetch' = [prefetch EXCEPT
          !.pc = "loop_top",
          !.position = @ + 1,
          !.writes = Append(@, [chapter |-> prefetch.position, op |-> "upsert_narration",
                                by |-> "main"])]
    /\ UNCHANGED <<mainVars, verify, client, store, restore, shelf, ingest, align, embed, batch, ranges, upd, split>>

\* After the loop: the tasks still in prefetch_tasks are cancelled and
\* gathered, the session commits, storytell_book returns.
LoopEnd ==
    LET p == prefetch
    IN /\ p.phase = "on" /\ p.outcome = "running"
       /\ p.pc = "loop_top" /\ p.position > NumChapters
       /\ prefetch' = [p EXCEPT
             !.tasks = [c \in 1..NumChapters |->
                          IF c \in p.prefetch_tasks /\ @[c] \in TaskInFlight
                          THEN "cancelled" ELSE @[c]],
             !.pc = "exited",
             !.outcome = "returned",
             !.session = "committed"]
       /\ UNCHANGED <<mainVars, verify, client, store, restore, shelf, ingest, align, embed, batch, ranges, upd, split>>

\* storytell_book is cancelled, or a node raises, at one of its awaits: the
\* exception leaves the loop and session_scope (nothing is committed) and
\* the `finally` closes the cache. Cancelling a coroutine that awaits a task
\* cancels that task.
Abort ==
    LET p == prefetch
    IN /\ p.phase = "on" /\ p.outcome = "running"
       /\ p.pc \in {"await_prefetch", "chapter_text", "state_lookup",
                    "state_update", "persist"}
       /\ \E how \in {"cancelled", "raised"} :
            /\ how = "raised" => p.pc # "await_prefetch"
            /\ prefetch' = [p EXCEPT
                  !.tasks = [c \in 1..NumChapters |->
                               IF /\ how = "cancelled" /\ p.pc = "await_prefetch"
                                  /\ c = p.position /\ @[c] \in TaskInFlight
                               THEN "cancelled" ELSE @[c]],
                  !.pc = "exited",
                  !.outcome = how,
                  !.session = "closed",
                  !.using = @ \ {"main"},
                  !.writes = <<>>]
       /\ UNCHANGED <<mainVars, verify, client, store, restore, shelf, ingest, align, embed, batch, ranges, upd, split>>

\* _prefetch_state starts: repo.list_chunks through the run's session; on a
\* closed session the call raises and the task ends.
TaskStart(c) ==
    /\ prefetch.phase = "on"
    /\ prefetch.tasks[c] = "created"
    /\ prefetch' = IF prefetch.session = "open"
                   THEN [prefetch EXCEPT !.tasks[c] = "list_chunks",
                                         !.using = @ \cup {TaskName(c)}]
                   ELSE [prefetch EXCEPT !.tasks[c] = "failed"]
    /\ UNCHANGED <<mainVars, verify, client, store, restore, shelf, ingest, align, embed, batch, ranges, upd, split>>

\* The chunks are read; entity_extract and memory_retrieve follow.
TaskChapterText(c) ==
    /\ prefetch.phase = "on"
    /\ prefetch.tasks[c] = "list_chunks"
    /\ prefetch' = [prefetch EXCEPT !.tasks[c] = "extract", !.using = @ \ {TaskName(c)}]
    /\ UNCHANGED <<mainVars, verify, client, store, restore, shelf, ingest, align, embed, batch, ranges, upd, split>>

\* entity_extract and memory_retrieve return the prefetched state; neither
\* writes to the database.
TaskDone(c) ==
    /\ prefetch.phase = "on"
    /\ prefetch.tasks[c] = "extract"
    /\ prefetch' = [prefetch EXCEPT
          !.tasks[c] = "done",
          !.lookups = IF \E i \in 1..Len(prefetch_state_nodes) :
                            prefetch_state_nodes[i] = "state_lookup"
                      THEN Append(@, [chapter |-> c, by |-> TaskName(c),
                                      updated |-> UpdatedChapters(prefetch.writes)])
                      ELSE @]
    /\ UNCHANGED <<mainVars, verify, client, store, restore, shelf, ingest, align, embed, batch, ranges, upd, split>>

PrefetchNext ==
    \/ LoopTop \/ AwaitPrefetch \/ ChapterText
    \/ GraphStateLookup \/ GraphGenerate \/ GraphStateUpdate \/ PersistNarration
    \/ LoopEnd \/ Abort
    \/ \E c \in 1..NumChapters : TaskStart(c) \/ TaskChapterText(c) \/ TaskDone(c)

PrefetchSpec == PrefetchInit /\ [][PrefetchNext]_vars


\* ------------------------------------------------------------------------
\* The narrations table under chapter-mode runs (storyteller/service.py
\* 804-884, storage/narrations/crud.py): two processes work on the same
\* chapter of the same database, each under its own configuration and
\* prompt version; each looks the narration up and, when it is missing,
\* generates and upserts it.
\* ------------------------------------------------------------------------

\* What a run's narration of the chapter depends on.  A route that is not
\* configured is None, which an f-string renders as "None".
BaseInputs ==
    [chapter_text |-> "t1", style |-> "s1", tier |-> "medium",
     tier_overrides_json |-> "{}",
     storyteller_chat |-> "c1", storyteller_entity_chat |-> "None",
     storyteller_narration_chat |-> "n1", storyteller_refine_chat |-> "None",
     prompt_version |-> "v1"]

\* The base inputs and the inputs that differ from them in one component.
InputVariants ==
    {BaseInputs,
     [BaseInputs EXCEPT !.chapter_text = "t2"],
     [BaseInputs EXCEPT !.style = "s2"],
     [BaseInputs EXCEPT !.tier_overrides_json = "{\"narration_ratio\":[0.4,0.5]}"],
     [BaseInputs EXCEPT !.storyteller_chat = "c2"],
     [BaseInputs EXCEPT !.storyteller_entity_chat = "e1"],
     [BaseInputs EXCEPT !.storyteller_narration_chat = "n2"],
     [BaseInputs EXCEPT !.storyteller_refine_chat = "r1"],
     [BaseInputs EXCEPT !.prompt_version = "v2"]}

\* `a or b` on route names.
RouteOr(a, b) == IF a # "None" THEN a ELSE b

\* The endpoint each storyteller client is built on.
entity_endpoint(inputs) == RouteOr(inputs.storyteller_entity_chat, inputs.storyteller_chat)
narration_endpoint(inputs) == RouteOr(inputs.storyteller_narration_chat, inputs.storyteller_chat)
refine_endpoint(inputs) ==
    RouteOr(inputs.storyteller_refine_chat,
            RouteOr(inputs.storyteller_narration_chat, inputs.storyteller_chat))

\* model_identifier of the narration client: provider/endpoint/model; every
\* endpoint names its own model of the one provider.
model_identifier(inputs) ==
    "openai/" \o narration_endpoint(inputs) \o "/model-" \o narration_endpoint(inputs)

\* The chapter-mode input hash: the f-string joined with ":".
narration_input_hash(chapter_id, chapter_idx, inputs) ==
    sha256_text(ToString(chapter_id) \o ":" \o ToString(chapter_idx) \o ":"
                \o inputs.chapter_text \o ":" \o inputs.style \o ":"
                \o inputs.tier \o ":" \o inputs.tier_overrides_json \o ":"
                \o inputs.storyteller_narration_chat \o ":"
                \o inputs.storyteller_refine_chat)

\* What the graph generates from: the chapter text, the style and overrides,
\* the prompt version and the endpoints of the three clients.
generation_inputs(inputs) ==
    [chapter_text |-> inputs.chapter_text, style |-> inputs.style,
     tier |-> inputs.tier, tier_overrides_json |-> inputs.tier_overrides_json,
     prompt_version |-> inputs.prompt_version,
     entity |-> entity_endpoint(inputs),
     narration |-> narration_endpoint(inputs),
     refine |-> refine_endpoint(inputs)]

Processes == {1, 2}
StoreBook == 1
StoreChapterIdx == 1

\* Chapter runs per process.
MaxProcessRuns == 2

NoProcess == [pc |-> "idle", inputs |-> BaseInputs, existing |-> {}, conflict |-> FALSE,
              runs |-> 0]

StoreInit ==
    /\ MainIdle
    /\ verify = NoVerify
    /\ client = NoClient
    /\ prefetch = NoPrefetch
    /\ restore = NoRestore
    /\ shelf = NoShelf
    /\ ingest = NoIngest
    /\ align = NoAlign
    /\ embed = NoEmbed
    /\ batch = NoBatch
    /\ ranges = NoRanges
    /\ upd = NoUpd
    /\ split = NoSplit
    /\ store = [phase |-> "on", narrations |-> {},
                process |-> [p \in Processes |-> NoProcess]]

\* A process starts on the chapter under its inputs and looks the narration
\* up by (chapter_id, prompt_version, model, input_hash): found, the chapter
\* is skipped; missing, the graph is run.
LookupNarration(p) ==
    /\ store.phase = "on"
    /\ store.process[p].pc = "idle"
    /\ \E inputs \in InputVariants :
         LET existing == get_narration(store.narrations,
                             ChapterId(StoreBook, StoreChapterIdx),
                             inputs.prompt_version, model_identifier(inputs),
                             narration_input_hash(ChapterId(StoreBook, StoreChapterIdx),
                                                  StoreChapterIdx, inputs))
         IN store' = [store EXCEPT !.process[p] =
                        [pc |-> IF existing # {} THEN "skipped" ELSE "generated",
                         inputs |-> inputs, existing |-> existing, conflict |-> FALSE,
                         runs |-> store.process[p].runs + 1]]
    /\ UNCHANGED <<mainVars, verify, client, prefetch, restore, shelf, ingest, align, embed, batch, ranges, upd, split>>

\* The generated narration is upserted under the identity looked up before.
UpsertNarration(p) ==
    /\ store.phase = "on"
    /\ store.process[p].pc = "generated"
    /\ LET inputs == store.process[p].inputs
           chapter_id == ChapterId(StoreBook, StoreChapterIdx)
           input_hash == narration_input_hash(chapter_id, StoreChapterIdx, inputs)
       IN store' = [store EXCEPT
              !.narrations = upsert_narration(@, StoreBook, chapter_id, StoreChapterIdx,
                                 generation_inputs(inputs), inputs.prompt_version,
                                 model_identifier(inputs), input_hash),
              !.process[p].pc = "persisted",
              !.process[p].conflict =
                  get_narration(store.narrations, chapter_id, inputs.prompt_version,
                                model_identifier(inputs), input_hash) # {}]
    /\ UNCHANGED <<mainVars, verify, client, prefetch, restore, shelf, ingest, align, embed, batch, ranges, upd, split>>

\* The run ends; the process may be started again, MaxProcessRuns runs in all.
RunEnds(p) ==
    /\ store.phase = "on"
    /\ store.process[p].pc \in {"skipped", "persisted"}
    /\ store.process[p].runs < MaxProcessRuns
    /\ store' = [store EXCEPT !.process[p] =
                    [NoProcess EXCEPT !.runs = store.process[p].runs]]
    /\ UNCHANGED <<mainVars, verify, client, prefetch, restore, shelf, ingest, align, embed, batch, ranges, upd, split>>

StoreNext ==
    \E p \in Processes :
        \/ LookupNarration(p)
        \/ UpsertNarration(p)
        \/ RunEnds(p)

StoreSpec == StoreInit /\ [][StoreNext]_vars


\* ------------------------------------------------------------------------
\* One checkpoint restore inside the session of a step-mode run
\* (storyteller/service.py 264-266 and 315-331, _ensure_world_state_at
\* 144-156, storage/repo.py 415-518, storage/db.py 85-108), started on the
\* databases that earlier runs on two books leave behind.
\* ------------------------------------------------------------------------

\* The state_update writes of chapter n of book b: a plot event, a
\* character, and from the second chapter on an item and a world fact.
ChapterWrites(ws, b, n) ==
    LET w1 == insert_plot_event(ws, b, n, "event", {})
        w2 == upsert_character_state(w1, b, IF n = 1 THEN "han" ELSE "mo", {}, n, n,
                                     "alive", "camp")
        w3 == upsert_item_state(w2, b, "sword", "mo", n, n, Null, "held")
    IN IF n = 1 THEN w2
       ELSE upsert_world_fact(w3, b, <<"item", "sword", "owner">>, "mo", 75, n, Null)

RECURSIVE WritesUpTo(_, _, _)
WritesUpTo(ws, b, n) ==
    IF n = 0 THEN ws ELSE ChapterWrites(WritesUpTo(ws, b, n - 1), b, n)

\* Book 1 was narrated up to chapter `written` when the checkpoint was taken
\* (book 2 narrated before that or not).  Since then book 1 was left alone
\* ("kept"), narrated one chapter further ("moved_on"), or cleared and rebuilt
\* up to its first chapter by a run that wrote no checkpoint ("rebuilt"); then
\* book 2 was narrated or not.
RestoreHistories ==
    [book2_before : BOOLEAN, written : 1..2,
     since : {"kept", "moved_on", "rebuilt"}, book2_after : BOOLEAN]

WorldWhenWritten(h) ==
    WritesUpTo(IF h.book2_before THEN ChapterWrites(EmptyWorld, 2, 1) ELSE EmptyWorld,
               1, h.written)

WorldNow(h) ==
    LET was == WorldWhenWritten(h)
        book1 == CASE h.since = "kept" -> was
                   [] h.since = "moved_on" -> ChapterWrites(was, 1, h.written + 1)
                   [] OTHER -> WritesUpTo(clear_world_state_for_book(was, 1), 1, 1)
    IN IF h.book2_after THEN ChapterWrites(book1, 2, 1) ELSE book1

\* What snapshot_json decodes to: the object _snapshot_world_state wrote, or,
\* after the column was edited outside the program, a JSON value that is not
\* an object or an object whose "characters" is not a list.
SnapshotShapes == {"written", "not_an_object", "invalid_structure"}

\* The step size of the run that restores: its second step starts at
\* step_size + 1, so the boundary it needs is chapter step_size.  The
\* checkpoint was written by an earlier run under step size 2.
RestoreStepSizes == {2, 3}

CheckpointOf(h) ==
    upsert_checkpoint({}, WorldWhenWritten(h), 1, h.written, 2,
                      snapshot_world_state(WorldWhenWritten(h), 1))

RestoreInit ==
    /\ MainIdle
    /\ verify = NoVerify
    /\ client = NoClient
    /\ prefetch = NoPrefetch
    /\ store = NoStore
    /\ shelf = NoShelf
    /\ ingest = NoIngest
    /\ align = NoAlign
    /\ embed = NoEmbed
    /\ batch = NoBatch
    /\ ranges = NoRanges
    /\ upd = NoUpd
    /\ split = NoSplit
    /\ \E h \in RestoreHistories : \E shape \in SnapshotShapes :
       \E step_size \in RestoreStepSizes :
         LET committed == [ws |-> WorldNow(h), checkpoints |-> CheckpointOf(h)]
         IN restore = [phase |-> "on", pc |-> "ensure", shape |-> shape,
                       step_size |-> step_size, target_chapter_idx |-> step_size,
                       db |-> committed, tx |-> committed, before |-> committed]

\* clear_world_state_for_book on the database: four DELETE statements, on
\* plot_events, character_states, item_states and world_facts.
clear_world_state_and_checkpoints(d, b) ==
    [ws |-> clear_world_state_for_book(d.ws, b),
     checkpoints |-> {c \in d.checkpoints : c.book_id # b}]

clear_world_state(d, b) ==
    [ws |-> clear_world_state_for_book(d.ws, b), checkpoints |-> d.checkpoints]

\* _ensure_world_state_at with a checkpoint at or before the target:
\* restore_world_state_checkpoint either returns or raises, before the clear
\* (the snapshot is no object), right after it (invalid structure) or in a
\* bulk insert (primary key).
RestoreCheckpoint ==
    /\ restore.phase = "on"
    /\ restore.pc = "ensure"
    /\ LET checkpoint == get_latest_checkpoint_at_or_before(restore.tx.checkpoints, 1,
                                                            restore.target_chapter_idx)
           cleared == clear_world_state(restore.tx, checkpoint.book_id)
       IN CASE restore.shape = "not_an_object" ->
                 restore' = [restore EXCEPT !.pc = "raised"]
            [] restore.shape = "invalid_structure" ->
                 restore' = [restore EXCEPT !.pc = "raised", !.tx = cleared]
            [] OTHER ->
                 IF restore_conflicts(restore.tx.ws, checkpoint)
                 THEN restore' = [restore EXCEPT !.pc = "raised",
                         !.tx = [cleared EXCEPT !.ws =
                            restore_world_state_checkpoint_raised(restore.tx.ws, checkpoint)]]
                 ELSE restore' = [restore EXCEPT !.pc = "restored",
                         !.tx = [cleared EXCEPT !.ws =
                            restore_world_state_checkpoint(restore.tx.ws, checkpoint)]]
    /\ UNCHANGED <<mainVars, verify, client, prefetch, store, shelf, ingest, align, embed, batch, ranges, upd, split>>

\* The block of session_scope ends: normally after a restore that returned,
\* by the exception of one that raised, which nothing catches on its way.
SessionScopeExit ==
    /\ restore.phase = "on"
    /\ restore.pc \in {"restored", "raised"}
    /\ restore' = [restore EXCEPT
            !.pc = IF restore.pc = "raised" THEN "failed" ELSE "committed",
            !.db = session_scope_exit(restore.db, restore.tx, restore.pc = "raised")]
    /\ UNCHANGED <<mainVars, verify, client, prefetch, store, shelf, ingest, align, embed, batch, ranges, upd, split>>

\* The next run on the book: a new session on the committed database.
RunAgain ==
    /\ restore.phase = "on"
    /\ restore.pc \in {"failed", "committed"}
    /\ restore.db # restore.before
    /\ restore' = [restore EXCEPT !.pc = "ensure", !.tx = restore.db,
                                  !.before = restore.db]
    /\ UNCHANGED <<mainVars, verify, client, prefetch, store, shelf, ingest, align, embed, batch, ranges, upd, split>>

RestoreNext ==
    \/ RestoreCheckpoint
    \/ SessionScopeExit
    \/ RunAgain

RestoreSpec == RestoreInit /\ [][RestoreNext]_vars


\* ------------------------------------------------------------------------
\* The narrations of one book and what reads them: get_latest_narration
\* (storage/narrations/crud.py 55-73), rebuild_narrations_fts_for_book
\* (145-162) and the markdown export (export/markdown.py 121-145).
\* ------------------------------------------------------------------------

\* Chapters of the book, rows in the narrations table, and seconds of
\* CURRENT_TIMESTAMP that pass.
ShelfChapters == 2
MaxVersions == 3
MaxClock == 2

ShelfRowsOf(narrations, chapter_idx) == {n \in narrations : n.chapter_idx = chapter_idx}

\* get_latest_narration: ORDER BY created_at DESC LIMIT 1.  Rows that share
\* the greatest created_at are returned in an order SQL leaves open: each of
\* them can be the first.
get_latest_narration(narrations, chapter_idx) ==
    {n \in ShelfRowsOf(narrations, chapter_idx) :
        \A m \in ShelfRowsOf(narrations, chapter_idx) : m.created_at <= n.created_at}

\* list_narrations_by_book: ORDER BY chapter_idx; rows of one chapter come in
\* an order SQL leaves open.  The result is one of these sequences.
list_narrations_by_book(narrations) ==
    {s \in [1..Cardinality(narrations) -> narrations] :
        /\ \A i \in DOMAIN s : \A j \in DOMAIN s : i # j => s[i] # s[j]
        /\ \A i \in DOMAIN s : \A j \in DOMAIN s :
              i < j => s[i].chapter_idx <= s[j].chapter_idx}

\* rebuild_narrations_fts_for_book: DELETE the book's rows, then INSERT ...
\* SELECT from narrations JOIN chapters WHERE book_id.
rebuild_narrations_fts_for_book(narrations) ==
    {[narration_id |-> n.id, chapter_idx |-> n.chapter_idx, text |-> n.narration_text]
        : n \in narrations}

\* _render_chapter_narration: heading of the chapter, then the text.
render_chapter_narration(row) == [chapter_idx |-> row.chapter_idx, text |-> row.narration_text]

\* The chapter files after the loop over rows: each row writes the file
\* named after its chapter, so a file holds what the last row of the
\* chapter wrote.
chapter_files(rows) ==
    [c \in {rows[i].chapter_idx : i \in DOMAIN rows} |->
        LET last == CHOOSE i \in DOMAIN rows :
                       /\ rows[i].chapter_idx = c
                       /\ \A j \in DOMAIN rows : rows[j].chapter_idx = c => j <= i
        IN rows[last].narration_text]

ShelfInit ==
    /\ MainIdle
    /\ verify = NoVerify
    /\ client = NoClient
    /\ prefetch = NoPrefetch
    /\ store = NoStore
    /\ restore = NoRestore
    /\ shelf = [phase |-> "on", clock |-> 1, narrations |-> {},
                latest |-> {}, fts |-> {}, fts_counts |-> <<>>,
                full_story |-> <<>>, files |-> <<>>, exported |-> FALSE]
    /\ ingest = NoIngest
    /\ align = NoAlign
    /\ embed = NoEmbed
    /\ batch = NoBatch
    /\ ranges = NoRanges
    /\ upd = NoUpd
    /\ split = NoSplit

\* What the readers returned is forgotten when the table changes.
Unread(s) ==
    [s EXCEPT !.latest = {}, !.fts_counts = <<>>,
              !.full_story = <<>>, !.files = <<>>, !.exported = FALSE]

\* A run persists another version of a chapter's narration (another
\* input_hash); created_at is the CURRENT_TIMESTAMP of the insert.
InsertVersion ==
    /\ shelf.phase = "on"
    /\ Cardinality(shelf.narrations) < MaxVersions
    /\ \E c \in 1..ShelfChapters :
         shelf' = [Unread(shelf) EXCEPT !.narrations = @ \cup
                      {[id |-> NextId(@), chapter_idx |-> c, created_at |-> shelf.clock,
                        narration_text |-> "version " \o ToString(NextId(@))]}]
    /\ UNCHANGED <<mainVars, verify, client, prefetch, store, restore, ingest, align, embed, batch, ranges, upd, split>>

\* A second passes.
ClockTick ==
    /\ shelf.phase = "on"
    /\ shelf.clock < MaxClock
    /\ shelf' = [shelf EXCEPT !.clock = @ + 1]
    /\ UNCHANGED <<mainVars, verify, client, prefetch, store, restore, ingest, align, embed, batch, ranges, upd, split>>

GetLatestNarration ==
    /\ shelf.phase = "on"
    /\ \E c \in 1..ShelfChapters : \E n \in get_latest_narration(shelf.narrations, c) :
         shelf' = [shelf EXCEPT !.latest = {n}]
    /\ UNCHANGED <<mainVars, verify, client, prefetch, store, restore, ingest, align, embed, batch, ranges, upd, split>>

RebuildNarrationsFts ==
    /\ shelf.phase = "on"
    /\ Len(shelf.fts_counts) < 2
    /\ LET fts == rebuild_narrations_fts_for_book(shelf.narrations)
       IN shelf' = [shelf EXCEPT !.fts = fts,
                                 !.fts_counts = Append(@, Cardinality(fts))]
    /\ UNCHANGED <<mainVars, verify, client, prefetch, store, restore, ingest, align, embed, batch, ranges, upd, split>>

\* export_book_markdown with narrations present: _export_storyteller_outputs
\* writes one chapter file per row and joins all sections into full_story.md.
ExportStorytellerOutputs ==
    /\ shelf.phase = "on"
    /\ shelf.narrations # {}
    /\ ~shelf.exported
    /\ \E rows \in list_narrations_by_book(shelf.narrations) :
         shelf' = [shelf EXCEPT
                     !.full_story = [i \in DOMAIN rows |-> render_chapter_narration(rows[i])],
                     !.files = chapter_files(rows),
                     !.exported = TRUE]
    /\ UNCHANGED <<mainVars, verify, client, prefetch, store, restore, ingest, align, embed, batch, ranges, upd, split>>

ShelfNext ==
    \/ InsertVersion
    \/ ClockTick
    \/ GetLatestNarration
    \/ RebuildNarrationsFts
    \/ ExportStorytellerOutputs

ShelfSpec == ShelfInit /\ [][ShelfNext]_vars


\* ------------------------------------------------------------------------
\* ingest_book (ingest/service.py 28-100): parse a file into chapters, split
\* the chapters into chunks and upsert both inside one session_scope.
\* ------------------------------------------------------------------------

\* Headings a file has at most, and ingests in a behaviour.
MaxBlocks == 3
MaxIngests == 2

\* A normalised file: an optional text before the first heading, then the
\* blocks the chapter regex cuts it into, each a heading line and the text
\* up to the next heading.  Texts are sequences of characters.
IngestTitles == {"Chapter 1", "Chapter 2"}
IngestTexts == {<<"x">>, <<"x", "x", "x">>}
IngestPrefaces == {<<>>, <<"x">>}
IngestBlocks == [title : IngestTitles, body : IngestTexts]
IngestFiles ==
    [preface : IngestPrefaces,
     blocks : UNION {[1..n -> IngestBlocks] : n \in 1..MaxBlocks}]

\* config.split: chunk_size_tokens, chunk_overlap_tokens, min_chunk_tokens,
\* all positive and the overlap less than the size.
SplitConfigs ==
    {[size |-> 2, overlap |-> 1, min |-> 1],
     [size |-> 3, overlap |-> 2, min |-> 1]}

\* hashing.book_hash: SHA-256 of the normalised text, one value per text.
compute_book_hash(file) == <<"book", file>>

\* hashing.chapter_hash: SHA-256 of book_hash::title::text.
compute_chapter_hash(book_hash_value, title, text) == <<"chapter", book_hash_value, title, text>>

\* hashing.chunk_hash: SHA-256 of chapter_hash::split_params::text.
compute_chunk_hash(chapter_hash_value, text, split_params) ==
    <<"chunk", chapter_hash_value, split_params, text>>

\* parse_chapters, regex branch: the preface, when there is one, is chapter
\* 1 with the preface title; every match is the next chapter, idx counting on.
parse_chapters(file) ==
    LET pre == IF file.preface = <<>> THEN <<>>
               ELSE <<[idx |-> 1, title |-> "preface", text |-> file.preface]>>
    IN pre \o [i \in 1..Len(file.blocks) |->
                  [idx |-> Len(pre) + i,
                   title |-> file.blocks[i].title,
                   text |-> file.blocks[i].body]]

\* split_text: the while loop from position start (0-based) on.
RECURSIVE split_loop(_, _, _, _)
split_loop(text, cfg, start, chunks) ==
    IF start >= Len(text) THEN chunks
    ELSE LET end == Min({start + cfg.size, Len(text)})
             segment == SubSeq(text, start + 1, end)
         IN IF Len(segment) < cfg.min /\ chunks # <<>>
            THEN [chunks EXCEPT ![Len(chunks)].text = @ \o segment,
                                ![Len(chunks)].end_pos = end]
            ELSE LET appended == Append(chunks, [idx |-> Len(chunks) + 1, text |-> segment,
                                                 start_pos |-> start, end_pos |-> end])
                     back == Max({0, end - cfg.overlap})
                 IN IF end = Len(text) THEN appended
                    ELSE split_loop(text, cfg, IF back = end THEN end + 1 ELSE back, appended)

split_text(text, cfg) ==
    IF text = <<>> THEN <<>>
    ELSE IF Len(text) <= cfg.size
    THEN <<[idx |-> 1, text |-> text, start_pos |-> 0, end_pos |-> Len(text)]>>
    ELSE split_loop(text, cfg, 0, <<>>)

\* upsert_chapter without its ON CONFLICT clause: a plain INSERT.
upsert_chapter_plain_insert(chapters, book_id, idx, title, chapter_hash) ==
    IF \E c \in chapters : c.chapter_hash = chapter_hash \/ (c.book_id = book_id /\ c.idx = idx)
    THEN [rows |-> chapters, id |-> 0, inserted |-> FALSE, raised |-> TRUE]
    ELSE [rows |-> chapters \cup {[id |-> NextId(chapters), book_id |-> book_id, idx |-> idx,
                                    title |-> title, chapter_hash |-> chapter_hash]},
          id |-> NextId(chapters), inserted |-> TRUE, raised |-> FALSE]

\* upsert_chapter: INSERT ... ON CONFLICT (chapter_hash) DO NOTHING, then the
\* id of the row with that hash.  The unique (book_id, idx) is no conflict
\* target: violating it raises IntegrityError.
upsert_chapter(chapters, book_id, idx, title, chapter_hash) ==
    IF \E c \in chapters : c.chapter_hash = chapter_hash
    THEN [rows |-> chapters,
          id |-> (CHOOSE c \in chapters : c.chapter_hash = chapter_hash).id,
          inserted |-> FALSE, raised |-> FALSE]
    ELSE IF \E c \in chapters : c.book_id = book_id /\ c.idx = idx
    THEN [rows |-> chapters, id |-> 0, inserted |-> FALSE, raised |-> TRUE]
    ELSE [rows |-> chapters \cup {[id |-> NextId(chapters), book_id |-> book_id, idx |-> idx,
                                    title |-> title, chapter_hash |-> chapter_hash]},
          id |-> NextId(chapters), inserted |-> TRUE, raised |-> FALSE]

\* upsert_chunk: the same on chunk_hash, with unique (chapter_id, idx).
upsert_chunk(chunks, chapter_id, idx, chunk_hash, text) ==
    IF \E c \in chunks : c.chunk_hash = chunk_hash
    THEN [rows |-> chunks,
          id |-> (CHOOSE c \in chunks : c.chunk_hash = chunk_hash).id,
          inserted |-> FALSE, raised |-> FALSE]
    ELSE IF \E c \in chunks : c.chapter_id = chapter_id /\ c.idx = idx
    THEN [rows |-> chunks, id |-> 0, inserted |-> FALSE, raised |-> TRUE]
    ELSE [rows |-> chunks \cup {[id |-> NextId(chunks), chapter_id |-> chapter_id, idx |-> idx,
                                  chunk_hash |-> chunk_hash, text |-> text]},
          id |-> NextId(chunks), inserted |-> TRUE, raised |-> FALSE]

\* get_or_create_book: INSERT ... ON CONFLICT (book_hash) DO NOTHING.
get_or_create_book(books, book_hash) ==
    IF \E b \in books : b.book_hash = book_hash
    THEN [rows |-> books, id |-> (CHOOSE b \in books : b.book_hash = book_hash).id,
          inserted |-> FALSE]
    ELSE [rows |-> books \cup {[id |-> NextId(books), book_hash |-> book_hash]},
          id |-> NextId(books), inserted |-> TRUE]

\* The inner loop of ingest_book over the chunks of one chapter, from chunk
\* i on; acc carries the session's chunks table and the counter.
RECURSIVE ingest_chunks(_, _, _, _, _, _)
ingest_chunks(acc, pieces, i, chapter_id, chapter_hash_value, split_params) ==
    IF acc.raised \/ i > Len(pieces) THEN acc
    ELSE LET r == upsert_chunk(acc.chunks, chapter_id, pieces[i].idx,
                               compute_chunk_hash(chapter_hash_value, pieces[i].text, split_params),
                               pieces[i].text)
         IN ingest_chunks([acc EXCEPT !.chunks = r.rows,
                                      !.raised = r.raised,
                                      !.chunks_total = @ + 1,
                                      !.chunks_inserted = @ + (IF r.inserted THEN 1 ELSE 0)],
                          pieces, i + 1, chapter_id, chapter_hash_value, split_params)

\* The outer loop of ingest_book over the parsed chapters, from chapter i on.
RECURSIVE ingest_chapters(_, _, _, _, _, _)
ingest_chapters(acc, parsed, i, book_id, book_hash_value, cfg) ==
    IF acc.raised \/ i > Len(parsed) THEN acc
    ELSE LET chapter_hash_value ==
                 compute_chapter_hash(book_hash_value, parsed[i].title, parsed[i].text)
             r == upsert_chapter(acc.chapters, book_id, parsed[i].idx, parsed[i].title,
                                 chapter_hash_value)
             after == [acc EXCEPT !.chapters = r.rows,
                                  !.raised = r.raised,
                                  !.chapters_inserted = @ + (IF r.inserted THEN 1 ELSE 0)]
         IN ingest_chapters(
               ingest_chunks(after, split_text(parsed[i].text, cfg), 1, r.id,
                             chapter_hash_value, cfg),
               parsed, i + 1, book_id, book_hash_value, cfg)

\* ingest_book: what the session holds when the body of session_scope ends.
ingest_book(tables, file, cfg) ==
    LET book_hash_value == compute_book_hash(file)
        book_result == get_or_create_book(tables.books, book_hash_value)
        done == ingest_chapters([books |-> book_result.rows, chapters |-> tables.chapters,
                                 chunks |-> tables.chunks, raised |-> FALSE,
                                 chapters_inserted |-> 0, chunks_total |-> 0,
                                 chunks_inserted |-> 0],
                                parse_chapters(file), 1, book_result.id, book_hash_value, cfg)
    IN [session |-> [books |-> done.books, chapters |-> done.chapters, chunks |-> done.chunks],
        raised |-> done.raised,
        stats |-> [book_id |-> book_result.id, book_hash |-> book_hash_value,
                   chapters_total |-> Len(parse_chapters(file)),
                   chapters_inserted |-> done.chapters_inserted,
                   chunks_total |-> done.chunks_total,
                   chunks_inserted |-> done.chunks_inserted]]

IngestInit ==
    /\ MainIdle
    /\ verify = NoVerify
    /\ client = NoClient
    /\ prefetch = NoPrefetch
    /\ store = NoStore
    /\ restore = NoRestore
    /\ shelf = NoShelf
    /\ ingest = [phase |-> "on",
                 tables |-> [books |-> {}, chapters |-> {}, chunks |-> {}],
                 calls |-> <<>>]
    /\ align = NoAlign
    /\ embed = NoEmbed
    /\ batch = NoBatch
    /\ ranges = NoRanges
    /\ upd = NoUpd
    /\ split = NoSplit

\* One call of ingest_book; session_scope commits what the body wrote or,
\* when the body raised, rolls it back.
IngestBook ==
    /\ ingest.phase = "on"
    /\ Len(ingest.calls) < MaxIngests
    /\ \E file \in IngestFiles : \E cfg \in SplitConfigs :
         LET out == ingest_book(ingest.tables, file, cfg)
             committed == session_scope_exit(ingest.tables, out.session, out.raised)
         IN ingest' = [ingest EXCEPT
                         !.tables = committed,
                         !.calls = Append(@, [file |-> file, config |-> cfg,
                                              raised |-> out.raised, stats |-> out.stats,
                                              chapters_before |-> ingest.tables.chapters,
                                              chunks_before |-> ingest.tables.chunks])]
    /\ UNCHANGED <<mainVars, verify, client, prefetch, store, restore, shelf, align, embed, batch, ranges, upd, split>>

IngestNext == IngestBook

IngestSpec == IngestInit /\ [][IngestNext]_vars


\* ------------------------------------------------------------------------
\* The chapter range of storytell_book (storyteller/service.py 277-292):
\* from_chapter and to_chapter are aligned to step boundaries, then
\* _filter_chapters selects.
\* ------------------------------------------------------------------------

\* Chapters a book has at most, and the largest step size.
MaxAlignChapters == 5
MaxAlignStep == 3

\* step_end_for_start: the inclusive end of a step, clamped.
step_end_for_start(step_start, step_size, max_chapter_idx) ==
    Min({max_chapter_idx, step_start + step_size - 1})

align_to_chapter(to_chapter, step_size, max_chapter_idx) ==
    step_end_for_start(step_start_for_chapter(to_chapter, step_size), step_size, max_chapter_idx)

\* _filter_chapters over the chapters 1..max_chapter_idx; NullIdx is None.
filter_chapters_range(max_chapter_idx, from_chapter, to_chapter) ==
    {idx \in 1..max_chapter_idx :
        /\ ~(from_chapter # NullIdx /\ idx < from_chapter)
        /\ ~(to_chapter # NullIdx /\ idx > to_chapter)}

\* storytell_book, lines 277-292.
effective_from(a) ==
    IF a.step_size > 1 /\ a.step_align = "auto" /\ a.from_chapter # NullIdx
    THEN align_from_chapter(a.from_chapter, a.step_size)
    ELSE a.from_chapter

effective_to(a) ==
    IF a.step_size > 1 /\ a.step_align = "auto" /\ a.to_chapter # NullIdx /\ a.max_idx > 0
    THEN align_to_chapter(a.to_chapter, a.step_size, a.max_idx)
    ELSE a.to_chapter

AlignInit ==
    /\ MainIdle
    /\ verify = NoVerify
    /\ client = NoClient
    /\ prefetch = NoPrefetch
    /\ store = NoStore
    /\ restore = NoRestore
    /\ shelf = NoShelf
    /\ ingest = NoIngest
    /\ \E max_idx \in 0..MaxAlignChapters : \E step_size \in 1..MaxAlignStep :
       \E align_mode \in {"auto", "off"} :
       \E from_chapter \in {NullIdx} \cup 1..(MaxAlignChapters + 1) :
       \E to_chapter \in {NullIdx} \cup 1..(MaxAlignChapters + 2) :
         align = [phase |-> "input", max_idx |-> max_idx, step_size |-> step_size,
                  step_align |-> align_mode, from_chapter |-> from_chapter,
                  to_chapter |-> to_chapter, effective_from |-> NullIdx,
                  effective_to |-> NullIdx, selected |-> {},
                  outcome |-> "none", step_ranges |-> <<>>, chapters_processed |-> 0]
    /\ embed = NoEmbed
    /\ batch = NoBatch
    /\ ranges = NoRanges
    /\ upd = NoUpd
    /\ split = NoSplit

SelectChapters ==
    /\ align.phase = "input"
    /\ align' = [align EXCEPT
                   !.phase = "selected",
                   !.effective_from = effective_from(align),
                   !.effective_to = effective_to(align),
                   !.selected = filter_chapters_range(align.max_idx, effective_from(align),
                                                      effective_to(align))]
    /\ UNCHANGED <<mainVars, verify, client, prefetch, store, restore, shelf, ingest, embed, batch, ranges, upd, split>>

\* storytell_book with step_size = 1: the chapter loop over the selection.
ChapterLoop ==
    /\ align.phase = "selected"
    /\ align.step_size = 1
    /\ align' = [align EXCEPT !.phase = "ended", !.outcome = "finished",
                              !.chapters_processed = Cardinality(align.selected)]
    /\ UNCHANGED <<mainVars, verify, client, prefetch, store, restore, shelf, ingest, embed, batch, ranges, upd, split>>

\* storytell_book with step_size > 1, lines 303-339: the warning for an empty
\* selection, then iter_step_ranges(start_chapter = first selected idx or 1,
\* end_chapter = max selected idx or 0); a ValueError leaves storytell_book
\* through its try/finally.  Otherwise the step loop runs over the ranges.
StepLoop ==
    /\ align.phase = "selected"
    /\ align.step_size > 1
    /\ LET start_chapter == IF align.selected # {} THEN Min(align.selected) ELSE 1
           max_selected_idx == IF align.selected # {} THEN Max(align.selected) ELSE 0
       IN align' =
             IF iter_step_ranges_raises(start_chapter, max_selected_idx, align.step_size)
             THEN [align EXCEPT !.phase = "ended", !.outcome = "raised"]
             ELSE [align EXCEPT !.phase = "ended", !.outcome = "finished",
                                !.step_ranges = iter_step_ranges(start_chapter, max_selected_idx,
                                                                 align.step_size),
                                !.chapters_processed = Cardinality(align.selected)]
    /\ UNCHANGED <<mainVars, verify, client, prefetch, store, restore, shelf, ingest, embed, batch, ranges, upd, split>>

AlignNext ==
    \/ SelectChapters
    \/ ChapterLoop
    \/ StepLoop

AlignSpec == AlignInit /\ [][AlignNext]_vars


\* ------------------------------------------------------------------------
\* embed_book_chunks and embed_book_narrations (embeddings/service.py
\* 105-234): the rows of a book not yet in its vector table are embedded and
\* appended in batches.
\* ------------------------------------------------------------------------

\* Rows (chunks or narrations) a book has at most, and embedding runs.
MaxEmbedRows == 3
MaxEmbedRuns == 3

BatchSizes == {1, 2}

\* The id key of each kind of row: ("chunk_id",) and ("narration_id",).
EmbedKinds == {"chunk_id", "narration_id"}

\* Where the vector table keeps the row id: in a column named after the id
\* key, in the id column, or inside the metadata column.  _list_existing_ids
\* reads all three.
TableLayouts == {"key_column", "id_column", "metadata_column"}

\* int(value) of a str(id).
ParseInt(value) == CHOOSE n \in 0..(MaxEmbedRows + 1) : ToString(n) = value

\* store.add_texts(texts, metadatas, ids): one record per text, the id
\* being str(row id).
vector_record(layout, id_key, row_id) ==
    [id |-> IF layout = "id_column" THEN ToString(row_id) ELSE "none",
     key |-> IF layout = "key_column" THEN row_id ELSE 0,
     metadata |-> IF layout = "metadata_column" THEN row_id ELSE 0,
     id_key |-> id_key]

\* _list_existing_ids looking the ids up under a key the table never has.
list_existing_ids_wrong_key(table, layout) == {}

\* _list_existing_ids: the ids in the table, as integers.
list_existing_ids(table, layout) ==
    {IF layout = "key_column" THEN table[i].key
     ELSE IF layout = "id_column" THEN ParseInt(table[i].id)
     ELSE table[i].metadata : i \in DOMAIN table}

\* The rows the loop appends to pending, in the order listed (by id).
RECURSIVE pending_rows(_, _, _)
pending_rows(rows, existing_ids, next) ==
    IF next > MaxEmbedRows THEN <<>>
    ELSE (IF next \in rows /\ next \notin existing_ids THEN <<next>> ELSE <<>>)
            \o pending_rows(rows, existing_ids, next + 1)

\* embed_book_*: flush() appends a batch of batch_size pending rows, and the
\* rest at the end; the embedding call of flush number failing_flush raises
\* (0: none does), the batches flushed before it stay in the table.
embed_book(e, batch_size, failing_flush) ==
    LET existing_ids == list_existing_ids(e.table, e.layout)
        pending == pending_rows(e.rows, existing_ids, 1)
        flushes == (Len(pending) + batch_size - 1) \div batch_size
        raised == failing_flush \in 1..flushes
        flushed == IF raised THEN (failing_flush - 1) * batch_size ELSE Len(pending)
    IN [table |-> e.table \o [i \in 1..flushed |-> vector_record(e.layout, e.kind, pending[i])],
        raised |-> raised,
        stats |-> [total |-> Cardinality(e.rows), embedded |-> flushed,
                   skipped |-> Cardinality(e.rows \cap existing_ids)]]

EmbedInit ==
    /\ MainIdle
    /\ verify = NoVerify
    /\ client = NoClient
    /\ prefetch = NoPrefetch
    /\ store = NoStore
    /\ restore = NoRestore
    /\ shelf = NoShelf
    /\ ingest = NoIngest
    /\ align = NoAlign
    /\ \E kind \in EmbedKinds : \E layout \in TableLayouts :
         embed = [phase |-> "on", kind |-> kind, layout |-> layout, rows |-> {},
                  table |-> <<>>, runs |-> 0, raised |-> FALSE,
                  stats |-> [total |-> 0, embedded |-> 0, skipped |-> 0],
                  table_before |-> <<>>]
    /\ batch = NoBatch
    /\ ranges = NoRanges
    /\ upd = NoUpd
    /\ split = NoSplit

\* Ingest or storytelling writes another chunk or narration of the book.
AddRow ==
    /\ embed.phase = "on"
    /\ Cardinality(embed.rows) < MaxEmbedRows
    /\ embed' = [embed EXCEPT !.rows = @ \cup {Cardinality(@) + 1}]
    /\ UNCHANGED <<mainVars, verify, client, prefetch, store, restore, shelf, ingest, align, batch, ranges, upd, split>>

EmbedBook ==
    /\ embed.phase = "on"
    /\ embed.runs < MaxEmbedRuns
    /\ \E batch_size \in BatchSizes : \E failing_flush \in 0..MaxEmbedRows :
         LET out == embed_book(embed, batch_size, failing_flush)
         IN /\ failing_flush = 0 \/ out.raised
            /\ embed' = [embed EXCEPT !.table = out.table, !.runs = @ + 1,
                                      !.raised = out.raised, !.stats = out.stats,
                                      !.table_before = embed.table]
    /\ UNCHANGED <<mainVars, verify, client, prefetch, store, restore, shelf, ingest, align, batch, ranges, upd, split>>

EmbedNext ==
    \/ AddRow
    \/ EmbedBook

EmbedSpec == EmbedInit /\ [][EmbedNext]_vars


\* ------------------------------------------------------------------------
\* storyteller_generate_step.run_batch (148-223) on the chapter texts of one
\* step.  Texts are sequences of characters.
\* ------------------------------------------------------------------------

\* Chapters a step has at most, and characters a chapter text has at most.
MaxBatchChapters == 2
MaxTextLen == 3

Whitespace == {" ", "nl"}
TextChars == {"a", " "}

RECURSIVE lstrip(_)
lstrip(text) ==
    IF text # <<>> /\ Head(text) \in Whitespace THEN lstrip(Tail(text)) ELSE text

RECURSIVE rstrip(_)
rstrip(text) ==
    IF text # <<>> /\ text[Len(text)] \in Whitespace
    THEN rstrip(SubSeq(text, 1, Len(text) - 1)) ELSE text

\* str.strip()
strip(text) == rstrip(lstrip(text))

\* _chapter_text returns the stripped text of a chapter; the step loop of
\* storytell_book skips a chapter whose text is empty.
BatchChapterTexts ==
    {t \in UNION {[1..n -> TextChars] : n \in 1..MaxTextLen} : strip(t) = t /\ t # <<>>}

\* narration_ratio[1] of the presets and the default, in percent.
NarrationRatios == {20, 30, 50}

\* "\n\n".join(texts)
RECURSIVE join_chapter_texts(_, _)
join_chapter_texts(texts, i) ==
    IF i > Len(texts) THEN <<>>
    ELSE (IF i > 1 THEN <<"nl", "nl">> ELSE <<>>) \o texts[i] \o join_chapter_texts(texts, i + 1)

\* _draft_narration with the target length int(len(text) * ratio[1]),
\* without the floor of one character.
draft_narration_text_no_floor(text, ratio) ==
    IF text = <<>> THEN <<>>
    ELSE strip(SubSeq(text, 1, (Len(text) * ratio) \div 100))

\* _draft_narration: the first max(1, int(len(text) * ratio[1])) characters,
\* stripped.
draft_narration_text(text, ratio) ==
    IF text = <<>> THEN <<>>
    ELSE strip(SubSeq(text, 1, Max({1, (Len(text) * ratio) \div 100})))

\* run_batch.  llm is "none" (no client), "raises" (the call raises) or
\* "replies" with reply as the narration of the payload.
run_batch(states, ratio, llm, reply) ==
    LET combined_text == strip(join_chapter_texts(states, 1))
        fallback_narration == draft_narration_text(combined_text, ratio)
    IN IF states = <<>>
       THEN [raised |-> FALSE, narration |-> <<>>, narration_llm_calls |-> 0, fallback |-> FALSE]
       ELSE IF llm = "none"
       THEN [raised |-> FALSE, narration |-> fallback_narration, narration_llm_calls |-> 0,
             fallback |-> TRUE]
       ELSE IF llm = "raises"
       THEN [raised |-> FALSE, narration |-> fallback_narration, narration_llm_calls |-> 1,
             fallback |-> TRUE]
       ELSE [raised |-> FALSE,
             narration |-> IF strip(reply) # <<>> THEN strip(reply)
                           ELSE draft_narration_text(combined_text, ratio),
             narration_llm_calls |-> 1, fallback |-> FALSE]

BatchInit ==
    /\ MainIdle
    /\ verify = NoVerify
    /\ client = NoClient
    /\ prefetch = NoPrefetch
    /\ store = NoStore
    /\ restore = NoRestore
    /\ shelf = NoShelf
    /\ ingest = NoIngest
    /\ align = NoAlign
    /\ embed = NoEmbed
    /\ \E n \in 1..MaxBatchChapters : \E states \in [1..n -> BatchChapterTexts] :
       \E ratio \in NarrationRatios : \E llm \in {"none", "raises", "replies"} :
       \E reply \in {<<>>, <<" ">>, <<"a">>} :
         /\ llm # "replies" => reply = <<>>
         /\ batch = [phase |-> "input", states |-> states, ratio |-> ratio, llm |-> llm,
                     reply |-> reply,
                     out |-> [raised |-> FALSE, narration |-> <<>>,
                              narration_llm_calls |-> 0, fallback |-> FALSE]]
    /\ ranges = NoRanges
    /\ upd = NoUpd
    /\ split = NoSplit

RunBatch ==
    /\ batch.phase = "input"
    /\ batch' = [batch EXCEPT !.phase = "returned",
                              !.out = run_batch(batch.states, batch.ratio, batch.llm, batch.reply)]
    /\ UNCHANGED <<mainVars, verify, client, prefetch, store, restore, shelf, ingest, align, embed, ranges, upd, split>>

BatchNext == RunBatch

BatchSpec == BatchInit /\ [][BatchNext]_vars


\* ------------------------------------------------------------------------
\* iter_step_ranges (storyteller/step_utils.py 40-63) on its own arguments.
\* ------------------------------------------------------------------------

\* The largest chapter idx and the largest step size passed.
MaxRangeChapter == 7
MaxRangeStep == 3

RangesInit ==
    /\ MainIdle
    /\ verify = NoVerify
    /\ client = NoClient
    /\ prefetch = NoPrefetch
    /\ store = NoStore
    /\ restore = NoRestore
    /\ shelf = NoShelf
    /\ ingest = NoIngest
    /\ align = NoAlign
    /\ embed = NoEmbed
    /\ batch = NoBatch
    /\ \E start_chapter \in 0..MaxRangeChapter : \E end_chapter \in 0..MaxRangeChapter :
       \E step_size \in 0..MaxRangeStep :
         ranges = [phase |-> "input", start_chapter |-> start_chapter,
                   end_chapter |-> end_chapter, step_size |-> step_size,
                   raised |-> FALSE, out |-> <<>>]
    /\ upd = NoUpd
    /\ split = NoSplit

IterStepRanges ==
    /\ ranges.phase = "input"
    /\ ranges' =
          IF iter_step_ranges_raises(ranges.start_chapter, ranges.end_chapter, ranges.step_size)
          THEN [ranges EXCEPT !.phase = "returned", !.raised = TRUE]
          ELSE [ranges EXCEPT !.phase = "returned",
                              !.out = iter_step_ranges(ranges.start_chapter, ranges.end_chapter,
                                                       ranges.step_size)]
    /\ UNCHANGED <<mainVars, verify, client, prefetch, store, restore, shelf, ingest, align,
                   embed, batch, upd, split>>

RangesNext == IterStepRanges

RangesSpec == RangesInit /\ [][RangesNext]_vars


\* ------------------------------------------------------------------------
\* state_lookup followed by state_update (storyteller/nodes/state_update.py
\* 56-226), chapter after chapter, on node outputs drawn from small sets.
\* ------------------------------------------------------------------------

\* Chapters updated in a behaviour, and character_updates of one run.
MaxUpdateRuns == 2
MaxCharacterUpdates == 2

UpdEntities == {<<>>, <<"han">>, <<"mo">>}

UpdCharacterUpdates ==
    {[name |-> "han", name_raw |-> "", change_type |-> "status", after |-> "hurt",
      before |-> "", evidence |-> "ev"],
     [name |-> "han", name_raw |-> "", change_type |-> "location", after |-> "camp",
      before |-> "", evidence |-> "ev"],
     [name |-> "mo", name_raw |-> "", change_type |-> "status", after |-> "gone",
      before |-> "", evidence |-> "ev"]}

UpdNewItems == {<<>>, <<[name |-> "sword", owner |-> "mo", description |-> "old"]>>}

UpdInit ==
    /\ MainIdle
    /\ verify = NoVerify
    /\ client = NoClient
    /\ prefetch = NoPrefetch
    /\ store = NoStore
    /\ restore = NoRestore
    /\ shelf = NoShelf
    /\ ingest = NoIngest
    /\ align = NoAlign
    /\ embed = NoEmbed
    /\ batch = NoBatch
    /\ ranges = NoRanges
    /\ split = NoSplit
    /\ upd = [phase |-> "on", ws |-> EmptyWorld, before |-> EmptyWorld, chapter_idx |-> 0,
              character_updates |-> <<>>]

\* The state_lookup and state_update nodes of one chapter, in graph order.
ApplyStateUpdate ==
    /\ upd.phase = "on"
    /\ upd.chapter_idx < MaxUpdateRuns
    /\ \E entities_mentioned \in UpdEntities : \E new_items \in UpdNewItems :
       \E n \in 0..MaxCharacterUpdates : \E character_updates \in [1..n -> UpdCharacterUpdates] :
         LET chapter_idx == upd.chapter_idx + 1
             lk == state_lookup(upd.ws, 1, chapter_idx, entities_mentioned, <<>>)
             st == [EmptyState EXCEPT !.chapter_idx = chapter_idx,
                                      !.entities_mentioned = entities_mentioned,
                                      !.character_updates = character_updates,
                                      !.new_items = new_items,
                                      !.character_states = lk.character_states,
                                      !.item_states = lk.item_states,
                                      !.recent_events = lk.recent_events]
         IN upd' = [upd EXCEPT !.ws = state_update(upd.ws, 1, st),
                               !.before = upd.ws,
                               !.chapter_idx = chapter_idx,
                               !.character_updates = character_updates]
    /\ UNCHANGED <<mainVars, verify, client, prefetch, store, restore, shelf, ingest, align,
                   embed, batch, ranges, split>>

UpdNext == ApplyStateUpdate

UpdSpec == UpdInit /\ [][UpdNext]_vars


\* ------------------------------------------------------------------------
\* split_text (ingest/splitter.py 19-60) on texts and on the split settings
\* SplitConfig accepts (config/schema.py 39-57).
\* ------------------------------------------------------------------------

\* Longest text, and largest chunk_size_tokens and min_chunk_tokens.
MaxSplitLen == 6
MaxSplitSize == 4
MaxSplitMin == 4

SplitAlphabet == <<"a", "b", "c", "d", "e", "f", "g">>

\* SplitConfig's validators: the three values positive, and
\* chunk_overlap_tokens < chunk_size_tokens.
SplitConfigAccepts(cfg) ==
    /\ cfg.size > 0 /\ cfg.overlap > 0 /\ cfg.min > 0
    /\ cfg.overlap < cfg.size

SplitInit ==
    /\ MainIdle
    /\ verify = NoVerify
    /\ client = NoClient
    /\ prefetch = NoPrefetch
    /\ store = NoStore
    /\ restore = NoRestore
    /\ shelf = NoShelf
    /\ ingest = NoIngest
    /\ align = NoAlign
    /\ embed = NoEmbed
    /\ batch = NoBatch
    /\ ranges = NoRanges
    /\ upd = NoUpd
    /\ \E n \in 0..MaxSplitLen :
       \E cfg \in [size : 0..MaxSplitSize, overlap : 0..MaxSplitSize, min : 0..MaxSplitMin] :
         /\ SplitConfigAccepts(cfg)
         /\ split = [phase |-> "input", text |-> SubSeq(SplitAlphabet, 1, n), cfg |-> cfg,
                     chunks |-> <<>>]

SplitText ==
    /\ split.phase = "input"
    /\ split' = [split EXCEPT !.phase = "done", !.chunks = split_text(split.text, split.cfg)]
    /\ UNCHANGED <<mainVars, verify, client, prefetch, store, restore, shelf, ingest, align,
                   embed, batch, ranges, upd>>

SplitNext == SplitText

SplitSpec == SplitInit /\ [][SplitNext]_vars


\* ================================================================== claims
\* The run that just committed repeats the previous committed run: same book,
\* same --from-chapter, same configuration.
RerunCommitted ==
    /\ pc = "committed"
    /\ hist.prev.outcome = "committed"
    /\ hist.prev.book_id = run.book_id
    /\ hist.prev.from_chapter = run.from_chapter

\* C1: re-running storytell on a book with unchanged inputs inserts no new
\* narration row; every chapter or step of the second run is a cache hit.
C1_RerunInsertsNothing ==
    RerunCommitted => (run.inserted = 0 /\ run.chapters_processed = 0)

C3_NodeFailureRollsBack ==
    pc = "failed" =>
        /\ db.narrations = hist.db_at_start.narrations
        /\ db.narration_outputs = hist.db_at_start.narration_outputs
        /\ db.ws = hist.db_at_start.ws

\* C3 witness: the node raised after the chapter's world-state writes (and,
\* in a step, after its narration) had been made in the session.
C3_Witness ==
    /\ pc = "failed"
    /\ tx.ws # run.unit_start_ws
    /\ tx.narrations # db.narrations

\* C4: when a run fails, the narrations of the chapters and steps completed
\* earlier in the same run remain persisted.
C4_PartialProgressDurable ==
    pc = "failed" => run.completed \subseteq db.narrations

\* C5: in step mode, before the aggregate of a step [S,E] is generated, the
\* world state of the book equals the boundary state recorded when the step
\* ending at S-1 completed.
C5_BaselineIsBoundary ==
    (pc = "step_entities" /\ StepStart > 1) =>
        \A r \in tx.boundary :
            (r.book_id = run.book_id /\ r.chapter_idx = StepStart - 1)
                => BookWorld(tx.ws, run.book_id) = r.world

\* C6: a snapshot taken right after a checkpoint is restored has the
\* snapshot_hash stored in the restored checkpoint.
C6_RestoreThenSnapshotSameHash ==
    pc = "restored" =>
        \A c \in run.checkpoint :
            snapshot_world_state(tx.ws, run.book_id).snapshot_hash = c.snapshot_hash

\* C6 witness: the restored checkpoint holds plot events, and the snapshot
\* hash of the world state before the restore was a different one.
C6_Witness ==
    /\ pc = "restored"
    /\ \E c \in run.checkpoint :
          /\ c.snapshot_json.plot_events # {}
          /\ snapshot_world_state(hist.db_at_start.ws, run.book_id).snapshot_hash
                # c.snapshot_hash


\* C7 (as stated): an LLM call that fails on every attempt aborts the chapter,
\* so the run persists no narration for the chapter (or step) it failed in.
C7_LLMFailureAbortsChapter ==
    pc = "committed" =>
        \A f \in run.llm_failed : \A n \in run.completed : n.chapter_idx # f.unit

\* C7 (amended): a call gives up after exactly retries + 1 attempts, and the
\* node falls back instead of aborting: the run goes on and, once committed,
\* holds a narration for every chapter or step in which a call failed; when
\* the narration call itself failed, that narration is the draft.
C7_LLMFailureFallsBack ==
    /\ run.llm.result = "failed" => run.llm.attempt = retries + 1
    /\ pc = "committed" =>
          \A f \in run.llm_failed :
             \E n \in db.narrations :
                /\ n.book_id = run.book_id
                /\ n.chapter_idx = f.unit
                /\ f.route = "narration" => n \in run.completed
                /\ (f.route = "narration" /\ n \in run.completed) =>
                      n.narration_text \in {draft_narration(chapter_text(run.book_id, f.unit)),
                                            "refined " \o draft_narration(
                                                chapter_text(run.book_id, f.unit))}

\* C7 witness: the narration call of a chapter failed on every attempt and
\* the committed run persisted the draft for that chapter.
C7_Witness ==
    /\ pc = "committed"
    /\ \E f \in run.llm_failed : \E n \in run.completed :
          /\ f.route = "narration"
          /\ n.chapter_idx = f.unit
          /\ n \in db.narrations

\* The narration call of a live step is in flight.
StepAggregateCall ==
    pc = "llm_call" /\ run.llm.route = "narration" /\ run.last_unit.kind = "step"

\* C8: the step-aggregate LLM call sees the baseline of the step: no
\* world-state write of the step precedes the call, and the baseline handed
\* to it is the lookup on the world state as the step found it; inside a
\* step the world state changes only after the call has returned.
C8_AggregateSeesBaseline ==
    /\ StepAggregateCall =>
          /\ tx.ws = run.unit_start_ws
          /\ run.base_lookup
                = state_lookup(run.unit_start_ws, run.book_id, StepStart, <<>>, <<>>)
          /\ run.state.character_states = run.base_lookup.character_states
          /\ run.state.item_states = run.base_lookup.item_states
          /\ run.state.recent_events = run.base_lookup.recent_events
    /\ (pc = "step" /\ tx.ws # run.unit_start_ws) => run.state.narration # ""

\* C8 witness: the aggregate call of a later step runs on a non-empty baseline.
C8_Witness ==
    /\ StepAggregateCall
    /\ StepStart > 1
    /\ run.base_lookup.character_states # {}
    /\ run.base_lookup.recent_events # {}

\* The step loop is back at its top right after a step cache hit.
AfterStepCacheHit == pc = "step_begin" /\ run.last_unit.kind = "step_hit"

\* The world state a replay of the stored payload of the step ending at
\* step_end produces from ws.
ReplayedFromPayload(ws, step_end) ==
    {state_update(ws, run.book_id,
        LET st0 == [EmptyState EXCEPT
                       !.chapter_idx = step_end,
                       !.entities_mentioned = o.payload_json.entities_mentioned,
                       !.key_events = o.payload_json.key_events,
                       !.character_updates = o.payload_json.character_updates,
                       !.new_items = o.payload_json.new_items]
            lk == state_lookup(ws, run.book_id, step_end, st0.entities_mentioned, <<>>)
        IN [st0 EXCEPT !.character_states = lk.character_states,
                       !.item_states = lk.item_states,
                       !.recent_events = lk.recent_events]) :
     o \in {q \in tx.narration_outputs : q.chapter_id = ChapterId(run.book_id, step_end)}}

CheckpointAt(step_end) ==
    {c \in tx.checkpoints : c.book_id = run.book_id /\ c.chapter_idx = step_end}

\* C9 (as stated): on a step cache hit no LLM call is made for the step,
\* state_update is replayed from the stored payload and the checkpoint of the
\* step is written.
C9_CacheHitNoLLMThenCheckpoint ==
    AfterStepCacheHit =>
        /\ run.last_unit.llm_calls = 0
        /\ tx.ws \in ReplayedFromPayload(run.unit_start_ws, run.last_unit.step_end)
        /\ \E c \in CheckpointAt(run.last_unit.step_end) :
              c.written_world = BookWorld(tx.ws, run.book_id)

\* C9 (amended): on a step cache hit the step-aggregate (narration) LLM call
\* is not made; the only LLM calls are the entity extractions, one per
\* chapter of the step, which precede the lookup.  state_update is replayed
\* from the stored payload, and the checkpoint of the step is written exactly
\* when step_checkpoint_enabled.
C9_CacheHitReplaysPayload ==
    AfterStepCacheHit =>
        LET hit == run.step_ranges[run.ri - 1]
        IN /\ run.last_unit.narration_calls = 0
           /\ run.last_unit.llm_calls = hit[2] - hit[1] + 1
           /\ tx.ws \in ReplayedFromPayload(run.unit_start_ws, hit[2])
           /\ config.step_checkpoint_enabled =>
                 \E c \in CheckpointAt(hit[2]) :
                    c.written_world = BookWorld(tx.ws, run.book_id)
           /\ ~config.step_checkpoint_enabled => CheckpointAt(hit[2]) = {}

\* C9 witness: a cache hit on a two-chapter step whose replay changed the
\* world state and whose checkpoint was written.
C9_Witness ==
    /\ AfterStepCacheHit
    /\ config.step_checkpoint_enabled
    /\ run.last_unit.llm_calls = 2
    /\ tx.ws # run.unit_start_ws
    /\ CheckpointAt(run.last_unit.step_end) # {}

\* C10: a retrieval for chapter c returns no hit of chapter c or of a later
\* chapter, whether the hit is a chunk or a narration and whether it came from
\* the vector search or from the keyword search.
C10_RetrievalIsCausal ==
    /\ \A i \in 1..Len(run.state.awakened_memories) :
          run.state.awakened_memories[i].chapter_idx < run.state.chapter_idx
    /\ \A s \in 1..Len(run.step_chapter_states) :
          \A i \in 1..Len(run.step_chapter_states[s].awakened_memories) :
             run.step_chapter_states[s].awakened_memories[i].chapter_idx
                < run.step_chapter_states[s].chapter_idx

\* C10 witness: a retrieval returned a chunk and a narration of earlier
\* chapters while the tables also held a chunk and a narration of the
\* current chapter.
C10_Witness ==
    \E s \in 1..Len(run.step_chapter_states) :
        LET st == run.step_chapter_states[s]
            types == {st.awakened_memories[i].source_type :
                         i \in 1..Len(st.awakened_memories)}
        IN /\ types = {"chunk", "narration"}
           /\ \E d \in chunk_docs(run.book_id) : d.chapter_idx >= st.chapter_idx
           /\ \E d \in narration_docs(db.narrations, run.book_id) :
                 d.chapter_idx >= st.chapter_idx

\* ---------------------------------------------------------------------- C11
\* The claims evidence_verify accepted, with the fields it added.
AcceptedClaims ==
    {verify.out.key_events[i] : i \in 1..Len(verify.out.key_events)}
    \cup {verify.out.character_updates[i] : i \in 1..Len(verify.out.character_updates)}
    \cup {verify.out.new_items[i] : i \in 1..Len(verify.out.new_items)}

\* C11: in every evidence_verify output, every accepted claim (key event,
\* character update or new item) carries an evidence_score that is greater
\* than or equal to evidence_min_support_score.
C11_AcceptedScoreReachesThreshold ==
    verify.phase = "returned" =>
        \A c \in AcceptedClaims :
            c.evidence_score * MinScoreUnit >= verify.min_score * RoundUnit

\* ---------------------------------------------------------------------- C12
\* C12: every LLM call makes at most retries+1 attempts in total (the SDK
\* repeats nothing), sleeps min(0.5*2^n, 4) seconds after its n-th failed
\* attempt (n from 0), and raises after the last failed attempt.
C12_AttemptsBoundedWithBackoff ==
    client.phase = "on" =>
        \A t \in Tasks :
            LET call == client.calls[t]
            IN /\ call.requests <= client.retries + 1
               /\ call.pc = "raised" => call.requests = client.retries + 1
               /\ Len(call.sleeps) <= client.retries
               /\ \A n \in 1..Len(call.sleeps) :
                    call.sleeps[n] = IF n <= 3 THEN 500 * Pow2(n - 1) ELSE 4000

\* A call failed retries+1 times, slept the capped 4 s before its last
\* attempt, and raised.
C12_Witness ==
    /\ client.phase = "on"
    /\ \E t \in Tasks :
         /\ client.calls[t].pc = "raised"
         /\ client.retries >= 5
         /\ client.calls[t].requests = client.retries + 1
         /\ client.calls[t].sleeps[5] = 4000

\* ---------------------------------------------------------------------- C13
\* C13: at every moment the number of LLM attempts in flight against one
\* endpoint is at most that endpoint's max_concurrency, whichever clients and
\* call variants issue them.
C13_InFlightWithinMaxConcurrency ==
    client.phase = "on" =>
        Cardinality(InFlight("storyteller_chat")) <= client.max_concurrency

\* ---------------------------------------------------------------------- C14
\* C14: a cached response that fails to parse as the caller's schema is
\* deleted from the cache when it is read and is never served; the call
\* then proceeds with a live request.
C14_UnparseableCacheDeletedNotServed ==
    client.phase = "on" =>
        \A t \in Tasks :
            LET call == client.calls[t]
            IN /\ call.served = "cache" => parses(call.outcome)
               /\ call.read_unparseable =>
                    /\ call.deleted_on_read
                    /\ call.pc # "idle"
                    /\ client.cache[call.key] # "unparseable"
                    /\ call.pc = "done" => call.served = "live" /\ call.requests >= 1

\* A call found an unparseable row, and a later call with the same key was
\* served the text the live request had cached.
C14_Witness ==
    /\ client.phase = "on"
    /\ \E t, u \in Tasks :
         /\ t # u
         /\ client.calls[t].read_unparseable
         /\ client.calls[t].pc = "done"
         /\ client.calls[u].key = client.calls[t].key
         /\ client.calls[u].served = "cache"

\* ---------------------------------------------------------------------- C15
\* C15: a cancelled pipeline cancels every in-flight prefetch task and
\* leaves persistent state uncorrupted: prefetch work performs no write, and
\* no write for a chapter occurs before that chapter's state_update.
C15_CancelStopsPrefetch ==
    prefetch.phase = "on" =>
        /\ prefetch.outcome = "cancelled" =>
              \A c \in 1..NumChapters : prefetch.tasks[c] \notin TaskInFlight
        /\ \A i \in 1..Len(prefetch.writes) :
              /\ prefetch.writes[i].by = "main"
              /\ prefetch.writes[i].op # "state_update" =>
                    \E j \in 1..(i - 1) :
                        /\ prefetch.writes[j].chapter = prefetch.writes[i].chapter
                        /\ prefetch.writes[j].op = "state_update"

\* ---------------------------------------------------------------------- C16
\* C16: no open database session is shared between concurrently running
\* tasks; every unit of work (a chapter, a prefetch lookahead) runs inside
\* its own session.
C16_NoSessionSharedByTasks ==
    prefetch.phase = "on" => Cardinality(prefetch.using) <= 1


\* C17: after any sequence of narration upserts, at most one narration row
\* exists for each (chapter_id, prompt_version, model, input_hash).
C17_OneNarrationPerIdentity ==
    store.phase = "on" =>
        \A n \in store.narrations : \A m \in store.narrations :
            narration_matches(n, m.chapter_id, m.prompt_version, m.model, m.input_hash)
                => n = m

\* An upsert met a row of its identity (written by the other process after
\* the lookup) while the table also holds rows of other identities.
C17_Witness ==
    /\ store.phase = "on"
    /\ \E p \in Processes :
         /\ store.process[p].pc = "persisted"
         /\ store.process[p].conflict
    /\ Cardinality(store.narrations) >= 3

\* C18: a chapter is skipped as already narrated only when the narration
\* found was generated from the inputs of the present run: the same chapter
\* text, style, tier overrides, prompt version and client endpoints.
C18_ReuseOnlyForUnchangedInputs ==
    store.phase = "on" =>
        \A p \in Processes :
            store.process[p].pc = "skipped" =>
                \A n \in store.process[p].existing :
                    n.narration_text = generation_inputs(store.process[p].inputs)


\* The snapshot rows of the checkpoint that the restore works on.
RestoredCheckpoint ==
    get_latest_checkpoint_at_or_before(restore.before.checkpoints, 1, restore.target_chapter_idx)

\* C19: a checkpoint restore is atomic.  After one that returned, the
\* world-state tables of the book hold exactly the rows of the snapshot and
\* the rows of other books are untouched; after one that raised, on a
\* malformed snapshot or in an insert, the tables of the database are what
\* they were when the restore began.
C19_RestoreAtomic ==
    restore.phase = "on" =>
        /\ restore.pc \in {"restored", "committed"} =>
              /\ BookWorld(restore.tx.ws, 1) = RestoredCheckpoint.snapshot_json
              /\ BookWorld(restore.tx.ws, 2) = BookWorld(restore.before.ws, 2)
        /\ restore.pc = "committed" => restore.db.ws = restore.tx.ws
        /\ restore.pc = "failed" => restore.db.ws = restore.before.ws

\* C19 witness: a restore raised in a bulk insert, after it had deleted the
\* rows of the book and inserted some of the snapshot's in the session.
C19_Witness ==
    /\ restore.phase = "on"
    /\ restore.pc = "failed"
    /\ restore.shape = "written"
    /\ BookWorld(restore.before.ws, 1) # EmptyWorld
    /\ BookWorld(restore.tx.ws, 1) # BookWorld(restore.before.ws, 1)
    /\ BookWorld(restore.tx.ws, 1) # EmptyWorld

\* C20: a checkpoint restore, returned or raised, deletes no checkpoint row.
C20_RestoreKeepsCheckpoints ==
    restore.phase = "on" =>
        /\ restore.before.checkpoints \subseteq restore.tx.checkpoints
        /\ restore.before.checkpoints \subseteq restore.db.checkpoints

\* C20 witness: a restore returned that deleted rows of the book which the
\* snapshot does not hold, and the checkpoint is in the table.
C20_Witness ==
    /\ restore.phase = "on"
    /\ restore.pc = "restored"
    /\ ~(BookWorld(restore.before.ws, 1).plot_events
            \subseteq BookWorld(restore.tx.ws, 1).plot_events)
    /\ restore.tx.checkpoints # {}

\* The step loop is back at its top right after it processed a step, live or
\* from the stored payload.
AfterStepProcessed ==
    /\ pc = "step_begin"
    /\ run.ri > 1
    /\ run.last_unit.kind \in {"step", "step_hit"}
    /\ run.last_unit.step_end = run.step_ranges[run.ri - 1][2]

\* The checkpoints (book_id, step_end, step_size) of the running book.
StepCheckpointsAt(step_end) ==
    {c \in tx.checkpoints : /\ c.book_id = run.book_id
                            /\ c.chapter_idx = step_end
                            /\ c.step_size = run.step_size}

\* C21: with step_checkpoint_enabled, after a step [S,E] has been processed,
\* live or by a cache-hit replay, a checkpoint (book_id, E, step_size) exists
\* whose snapshot is the world state right after the step's state_update; and
\* the checkpoints of the steps processed earlier in the run are still there.
C21_CheckpointAfterEveryStep ==
    (config.step_checkpoint_enabled /\ AfterStepProcessed) =>
        /\ \E c \in StepCheckpointsAt(run.last_unit.step_end) :
              /\ c.snapshot_json = snapshot_world_state(tx.ws, run.book_id).snapshot_json
              /\ c.snapshot_hash = snapshot_world_state(tx.ws, run.book_id).snapshot_hash
        /\ \A i \in 1..(run.ri - 1) : StepCheckpointsAt(run.step_ranges[i][2]) # {}

\* C21 witness: the second step of a run was processed live, its state_update
\* changed the world state, and the first step's checkpoint holds another
\* snapshot.
C21_Witness ==
    /\ config.step_checkpoint_enabled
    /\ AfterStepProcessed
    /\ run.ri = 3
    /\ run.last_unit.kind = "step"
    /\ tx.ws # run.unit_start_ws
    /\ \E c \in StepCheckpointsAt(run.step_ranges[1][2]) :
          c.snapshot_json # snapshot_world_state(tx.ws, run.book_id).snapshot_json

\* C21 for a cache hit: the replayed step is checkpointed as well.
C21_WitnessCacheHit ==
    /\ config.step_checkpoint_enabled
    /\ AfterStepProcessed
    /\ run.last_unit.kind = "step_hit"
    /\ tx.ws # run.unit_start_ws

\* The order of the nodes that the specification gives.
FixedNodeOrder ==
    <<"entity_extract", "state_lookup", "memory_retrieve", "storyteller_generate",
      "consistency_check", "evidence_verify", "refine_narration", "state_update",
      "memory_commit">>

\* The claims of the chapter that evidence_verify would drop.
UnverifiedClaims(st) ==
    evidence_verify(st).key_events # st.key_events
        \/ evidence_verify(st).character_updates # st.character_updates
        \/ evidence_verify(st).new_items # st.new_items

\* C22: within a chapter the nodes run in the fixed order entity_extract,
\* state_lookup, memory_retrieve, storyteller_generate, consistency_check,
\* evidence_verify, refine_narration, state_update, memory_commit: what has
\* run so far is a prefix of that order, the graph returns only after all
\* nine, and when state_update is about to run evidence_verify has run and
\* no unverified claim is left in the state.
C22_NodesRunInFixedOrder ==
    /\ Len(run.executed) <= Len(FixedNodeOrder)
    /\ \A i \in 1..Len(run.executed) : run.executed[i] = FixedNodeOrder[i]
    /\ pc = "graph" => Len(run.executed) < Len(FixedNodeOrder)
    /\ pc \in {"chapter_persist", "replay"} /\ run.executed # <<>>
          => run.executed = FixedNodeOrder
    /\ (pc = "graph" /\ run.executed # <<>>
            /\ run.executed[Len(run.executed)] = "refine_narration")
          => ~UnverifiedClaims(run.state)

\* C22 witness: the graph has returned for a chapter whose narration call
\* failed; evidence_verify dropped the draft's placeholder event, and
\* state_update then wrote the state without it.
C22_Witness ==
    /\ pc = "chapter_persist"
    /\ run.executed = FixedNodeOrder
    /\ LET draft == storyteller_generate(run.book_id, run.state.chapter_idx, FALSE)
       IN /\ run.state.narration \in {draft.narration, "refined " \o draft.narration}
          /\ UnverifiedClaims([run.state EXCEPT !.key_events = draft.key_events])
          /\ run.state.key_events = <<>>

\* The latest version of a chapter: greatest created_at, then greatest id.
LatestVersion(narrations, chapter_idx) ==
    CHOOSE n \in ShelfRowsOf(narrations, chapter_idx) :
        \A m \in ShelfRowsOf(narrations, chapter_idx) :
            m.created_at < n.created_at \/ (m.created_at = n.created_at /\ m.id <= n.id)

NarratedChapters(narrations) == {n.chapter_idx : n \in narrations}

\* C23: the latest narration of a chapter is the row with the greatest
\* created_at and, among those, the greatest id, also when two versions of
\* the chapter share their created_at.
C23_LatestIsGreatestCreatedAtThenId ==
    shelf.phase = "on" =>
        \A n \in shelf.latest : n = LatestVersion(shelf.narrations, n.chapter_idx)

\* C24: the export holds exactly one section per narrated chapter, in
\* full_story.md and in the chapter files, with the text of the chapter's
\* latest version.
C24_ExportLatestOnly ==
    (shelf.phase = "on" /\ shelf.exported) =>
        /\ Len(shelf.full_story) = Cardinality(NarratedChapters(shelf.narrations))
        /\ \A i \in DOMAIN shelf.full_story :
              shelf.full_story[i].text =
                 LatestVersion(shelf.narrations, shelf.full_story[i].chapter_idx).narration_text
        /\ \A c \in DOMAIN shelf.files :
              shelf.files[c] = LatestVersion(shelf.narrations, c).narration_text

\* C25: a rebuild of the narrations FTS index holds one row per narrated
\* chapter, that of the latest narration, and a second rebuild returns the
\* same row count.
C25_FtsLatestOnlyAndStable ==
    (shelf.phase = "on" /\ shelf.fts_counts # <<>>) =>
        /\ shelf.fts = {[narration_id |-> LatestVersion(shelf.narrations, c).id,
                         chapter_idx |-> c,
                         text |-> LatestVersion(shelf.narrations, c).narration_text]
                          : c \in NarratedChapters(shelf.narrations)}
        /\ \A i \in DOMAIN shelf.fts_counts : shelf.fts_counts[i] = shelf.fts_counts[1]


SameIngestTwice ==
    /\ ingest.phase = "on"
    /\ Len(ingest.calls) = 2
    /\ ingest.calls[1].file = ingest.calls[2].file
    /\ ingest.calls[1].config = ingest.calls[2].config

\* C26: the second ingest of the same file (under the same configuration)
\* returns the same book_hash, reports zero inserted chapters and zero
\* inserted chunks, and leaves the chapters and chunks tables as they were.
C26_SecondIngestInsertsNothing ==
    SameIngestTwice =>
        /\ ~ingest.calls[1].raised /\ ~ingest.calls[2].raised
        /\ ingest.calls[2].stats.book_hash = ingest.calls[1].stats.book_hash
        /\ ingest.calls[2].stats.book_id = ingest.calls[1].stats.book_id
        /\ ingest.calls[2].stats.chapters_inserted = 0
        /\ ingest.calls[2].stats.chunks_inserted = 0
        /\ ingest.tables.chapters = ingest.calls[2].chapters_before
        /\ ingest.tables.chunks = ingest.calls[2].chunks_before

C26_Witness ==
    /\ SameIngestTwice
    /\ ingest.calls[1].stats.chapters_inserted >= 2
    /\ ingest.calls[1].stats.chunks_inserted >= 3
    /\ ingest.calls[2].stats.chapters_total >= 2
    /\ ingest.calls[2].stats.chunks_total >= 3
    /\ ingest.calls[2].stats.chapters_inserted = 0
    /\ ingest.calls[2].stats.chunks_inserted = 0

BookChapters(book_id) == {c \in ingest.tables.chapters : c.book_id = book_id}

\* C27: the idx values of the persisted chapters of every ingested book are
\* exactly 1..N, N the number of its chapters.
C27_ChapterIdxContiguous ==
    ingest.phase = "on" =>
        \A b \in ingest.tables.books :
            {c.idx : c \in BookChapters(b.id)} = 1..Cardinality(BookChapters(b.id))


AlignedSelection ==
    align.phase = "selected" /\ align.step_size > 1 /\ align.step_align = "auto"

\* The chapters of the step that holds chapter idx, in a book of n chapters.
StepOf(idx, step_size, n) ==
    {c \in 1..n : (c - 1) \div step_size = (idx - 1) \div step_size}

\* C28: with step_size k > 1 and step_align = auto a from-chapter is moved
\* down to the first chapter of its step, a to-chapter is moved up to the
\* last chapter of its step (the last chapter of the book when the step is
\* cut short), and the selection is a union of whole steps.
C28_RangeAlignedToWholeSteps ==
    AlignedSelection =>
        /\ align.from_chapter # NullIdx =>
              /\ align.effective_from <= align.from_chapter
              /\ align.from_chapter - align.effective_from < align.step_size
              /\ (align.effective_from - 1) % align.step_size = 0
        /\ (align.to_chapter # NullIdx /\ align.max_idx > 0) =>
              /\ align.effective_to >= Min({align.to_chapter, align.max_idx})
              /\ align.effective_to - align.to_chapter < align.step_size
              /\ \/ align.effective_to % align.step_size = 0
                 \/ align.effective_to = align.max_idx
              /\ align.effective_to <= align.max_idx
        /\ \A idx \in align.selected :
              StepOf(idx, align.step_size, align.max_idx) \subseteq align.selected

C28_Witness ==
    /\ AlignedSelection
    /\ align.from_chapter # NullIdx /\ align.effective_from < align.from_chapter
    /\ align.to_chapter # NullIdx /\ align.effective_to > align.to_chapter
    /\ align.effective_to < align.max_idx
    /\ Cardinality(align.selected) >= 2 * align.step_size


\* The row ids of the vectors in a table, read from wherever the layout
\* keeps them.
VectorIds(table) ==
    [i \in DOMAIN table |->
        IF embed.layout = "key_column" THEN table[i].key
        ELSE IF embed.layout = "id_column" THEN ParseInt(table[i].id)
        ELSE table[i].metadata]

\* C29: an embedding run adds no vector for a row id the vector table
\* already holds: the table is extended only by ids new to it, once each,
\* so no id ever has two vectors.
C29_EmbeddingIdempotentById ==
    embed.phase = "on" =>
        LET ids == VectorIds(embed.table)
            old == Len(embed.table_before)
        IN /\ SubSeq(embed.table, 1, old) = embed.table_before
           /\ \A i \in DOMAIN ids : \A j \in DOMAIN ids : i # j => ids[i] # ids[j]
           /\ \A i \in (old + 1)..Len(ids) : \A j \in 1..old : ids[i] # ids[j]

C29_Witness ==
    /\ embed.phase = "on"
    /\ embed.runs >= 2
    /\ ~embed.raised
    /\ embed.stats.skipped >= 2
    /\ embed.stats.embedded >= 1
    /\ Len(embed.table) = Cardinality(embed.rows)

C29_WitnessNothingNew ==
    /\ embed.phase = "on"
    /\ embed.runs >= 2
    /\ embed.stats.skipped = MaxEmbedRows
    /\ embed.stats.embedded = 0
    /\ embed.table = embed.table_before


\* C30: when the step-aggregate LLM call raises, run_batch returns (it does
\* not raise) and the narration it returns is non-empty: a draft that starts
\* the step's combined chapter text.
C30_FallbackDraftOnLlmFailure ==
    (batch.phase = "returned" /\ batch.llm = "raises") =>
        /\ ~batch.out.raised
        /\ batch.out.fallback
        /\ batch.out.narration # <<>>
        /\ Len(batch.out.narration) <= Len(join_chapter_texts(batch.states, 1))
        /\ batch.out.narration =
              SubSeq(join_chapter_texts(batch.states, 1), 1, Len(batch.out.narration))

C30_Witness ==
    /\ batch.phase = "returned"
    /\ batch.llm = "raises"
    /\ Len(batch.states) = 2
    /\ batch.out.narration_llm_calls = 1
    /\ Len(batch.out.narration) >= 2

\* A one-character step text with ratio below one: the draft is that
\* character.
C30_WitnessShortText ==
    /\ batch.phase = "returned"
    /\ batch.llm = "raises"
    /\ batch.states = <<(<<"a">>)>>
    /\ batch.out.narration = <<"a">>


RangesFor(start_le_end) ==
    /\ ranges.phase = "returned"
    /\ ranges.step_size >= 1
    /\ ranges.start_chapter >= 1
    /\ (ranges.start_chapter <= ranges.end_chapter) = start_le_end

\* C31: for start <= end and step size k, iter_step_ranges returns ranges in
\* ascending order that do not overlap, each inside one k-aligned step, and
\* together covering every chapter from the first chapter of the start
\* chapter's step through the end chapter.
C31_StepRangesPartition ==
    RangesFor(TRUE) =>
        LET out == ranges.out
            k == ranges.step_size
        IN /\ ~ranges.raised
           /\ out # <<>>
           /\ \A i \in DOMAIN out :
                 /\ out[i][1] <= out[i][2]
                 /\ (out[i][1] - 1) \div k = (out[i][2] - 1) \div k
           /\ \A i \in DOMAIN out : i < Len(out) => out[i][2] < out[i + 1][1]
           /\ UNION {out[i][1]..out[i][2] : i \in DOMAIN out} =
                 {c \in 1..ranges.end_chapter :
                     (c - 1) \div k >= (ranges.start_chapter - 1) \div k}

C31_Witness ==
    /\ RangesFor(TRUE)
    /\ ranges.step_size = 3
    /\ Len(ranges.out) = 3
    /\ ranges.out[1][1] < ranges.start_chapter
    /\ ranges.out[3][2] - ranges.out[3][1] + 1 < ranges.step_size


EmptySelectionEnded ==
    align.phase = "ended" /\ align.selected = {}

\* C38: in step mode a run whose chapter selection is empty finishes
\* normally, with zero chapters processed, and does not raise.
C38_EmptySelectionFinishes ==
    (EmptySelectionEnded /\ align.step_size > 1) =>
        /\ align.outcome = "finished"
        /\ align.chapters_processed = 0

\* With step_size 1 the empty selection does finish normally.
C38_ChapterModeEmptySelectionFinishes ==
    (EmptySelectionEnded /\ align.step_size = 1) =>
        /\ align.outcome = "finished"
        /\ align.chapters_processed = 0


\* C32: the committed world state holds the plot events of at most one
\* narration version per chapter: no event of a chapter is stored twice
\* because the chapter was generated again under another input_hash.
C32_PlotEventsOfOneVersion ==
    \A e1 \in db.ws.plot_events : \A e2 \in db.ws.plot_events :
        (/\ e1.book_id = e2.book_id
         /\ e1.chapter_idx = e2.chapter_idx
         /\ e1.event_summary = e2.event_summary) => e1.id = e2.id


\* A row without its autoincrement id, which the database assigns.
RowContent(r) == [f \in DOMAIN r \ {"id"} |-> r[f]]

\* Two tables hold the same rows, each as many times, up to the row ids.
SameRows(rows1, rows2) ==
    \A c \in {RowContent(r) : r \in rows1 \cup rows2} :
        Cardinality({r \in rows1 : RowContent(r) = c})
            = Cardinality({r \in rows2 : RowContent(r) = c})

\* Two world states hold the same characters, items, plot events and world
\* facts.
SameWorld(w1, w2) ==
    /\ SameRows(w1.characters, w2.characters)
    /\ SameRows(w1.items, w2.items)
    /\ SameRows(w1.plot_events, w2.plot_events)
    /\ SameRows(w1.world_facts, w2.world_facts)

\* The live runs of the step the loop is at, generated under the input_hash
\* the loop has just computed, on the world state the loop is in now.
LiveUpdatesOfStep ==
    {l \in tx.live_updates :
        /\ l.book_id = run.book_id
        /\ l.chapter_idx = StepEnd
        /\ l.input_hash = CurrentStepHash
        /\ SameWorld(l.before, BookWorld(tx.ws, run.book_id))}

\* C33: a step cache hit that replays the stored payload on the baseline the
\* live run started from leaves the book's characters, items, plot events
\* and world facts as the live run of the step left them (the same rows,
\* whatever ids the database gives them).
C33_ReplayEqualsLiveRun ==
    [][(/\ pc = "step_entities"
        /\ Len(run.step_chapter_states) = StepLen
        /\ ExistingStepPayload # {}
        /\ pc' = "step_begin")
       => \A l \in LiveUpdatesOfStep : SameWorld(BookWorld(tx'.ws, run.book_id), l.after)]_vars

\* A cache hit has replayed a payload that wrote rows, and a live run of
\* that step, from the same baseline, is on record.
C33_Witness ==
    /\ pc = "step_begin"
    /\ run.ri > 1
    /\ run.last_unit.kind = "step_hit"
    /\ tx.ws # run.unit_start_ws
    /\ \E l \in tx.live_updates :
          /\ l.book_id = run.book_id
          /\ l.chapter_idx = run.last_unit.step_end
          /\ SameWorld(l.before, BookWorld(run.unit_start_ws, run.book_id))
          /\ SameWorld(l.after, BookWorld(tx.ws, run.book_id))
          /\ l.after.characters # l.before.characters
          /\ l.after.plot_events # l.before.plot_events


\* The last run carried two updates of one character, one of its status and
\* one of its location.
TwoUpdatesOfOneCharacter ==
    /\ upd.phase = "on"
    /\ Len(upd.character_updates) = 2
    /\ upd.character_updates[1].name = upd.character_updates[2].name
    /\ upd.character_updates[1].change_type # upd.character_updates[2].change_type

\* C34: after a state_update run with two character_updates of one character
\* the stored row shows both: the status of the status update and the
\* location of the location update.
C34_BothUpdatesOfOneRunStored ==
    TwoUpdatesOfOneCharacter =>
        \A i \in 1..2 :
            \E r \in upd.ws.characters :
                /\ r.canonical_name = upd.character_updates[i].name
                /\ upd.character_updates[i].change_type = "status"
                      => r.status = upd.character_updates[i].after
                /\ upd.character_updates[i].change_type = "location"
                      => r.location = upd.character_updates[i].after

\* C35 for characters: a first_chapter_idx that was set is the same after
\* the next state_update.
C35_CharacterFirstChapterKept ==
    upd.phase = "on" =>
        \A r \in upd.before.characters :
            r.first_chapter_idx # NullIdx =>
                \E q \in upd.ws.characters : q.id = r.id /\ q.first_chapter_idx = r.first_chapter_idx

\* C35 for items.
C35_ItemFirstChapterKept ==
    upd.phase = "on" =>
        \A r \in upd.before.items :
            r.first_chapter_idx # NullIdx =>
                \E q \in upd.ws.items : q.id = r.id /\ q.first_chapter_idx = r.first_chapter_idx

\* C35: the first_chapter_idx of a character or item, once set, is never
\* changed or cleared by a later state_update.
C35_FirstChapterIdxNeverChanges ==
    C35_CharacterFirstChapterKept /\ C35_ItemFirstChapterKept


\* C36: a step run restores only a checkpoint written under its own
\* step_size.
C36_RestoredCheckpointOfSameStepSize ==
    (restore.phase = "on" /\ restore.pc \in {"restored", "committed"}) =>
        RestoredCheckpoint.step_size = restore.step_size

\* The same for the runs whose step size is the one the checkpoint was
\* written under.
C36_SameStepSizeRuns ==
    (restore.phase = "on" /\ restore.pc \in {"restored", "committed"} /\ restore.step_size = 2) =>
        RestoredCheckpoint.step_size = restore.step_size

\* C37: every state_lookup of a chapter after the first runs after the
\* state_update of the chapter before it, and nothing the chapter loop takes
\* from a prefetched state is character, item or event state.
C37_PrefetchReadsNoStaleWorldState ==
    prefetch.phase = "on" =>
        /\ \A i \in 1..Len(prefetch.lookups) :
              prefetch.lookups[i].chapter > 1 =>
                  (prefetch.lookups[i].chapter - 1) \in prefetch.lookups[i].updated
        /\ prefetch.from_prefetch \cap WorldStateKeys = {}

\* The state_lookup of a chapter whose entities and memories came from a
\* prefetch task has run.
C37_Witness ==
    /\ prefetch.phase = "on"
    /\ prefetch.pc = "state_lookup"
    /\ prefetch.position > 1
    /\ "awakened_memories" \in prefetch.from_prefetch
    /\ "entities_mentioned" \in prefetch.from_prefetch
    /\ prefetch.tasks[prefetch.position] = "done"


\* The chunks are numbered 1..n, the first starts at position 0 and the
\* last ends at the end of the text.
CoversText(text, chunks) ==
    /\ chunks # <<>>
    /\ \A i \in 1..Len(chunks) : chunks[i].idx = i
    /\ chunks[1].start_pos = 0
    /\ chunks[Len(chunks)].end_pos = Len(text)

\* C39: split_text loses no text: for a non-empty text and accepted split
\* settings the chunks are numbered 1..n, the first starts at 0 and the last
\* ends at len(text).
C39_SplitTextLosesNoText ==
    (split.phase = "done" /\ split.text # <<>>) => CoversText(split.text, split.chunks)

\* The same for the settings whose min_chunk_tokens is at most
\* chunk_size_tokens.
C39_NoTextLostWhenMinWithinSize ==
    (split.phase = "done" /\ split.text # <<>> /\ split.cfg.min <= split.cfg.size) =>
        CoversText(split.text, split.chunks)


\* C40: whatever a call writes to the LLM cache is a text its parser
\* accepted, and a call that raises after its last attempt has written
\* nothing.
C40_CacheStoresOnlyParsedResponses ==
    [][client.phase = "on" =>
         /\ \A k \in Routes :
               (client'.cache[k] # client.cache[k] /\ client'.cache[k] # Null)
                   => client'.cache[k] = "parseable"
         /\ \A t \in Tasks :
               (client.calls[t].pc = "replied" /\ client'.calls[t].pc = "raised")
                   => client'.cache = client.cache]_vars

\* A call whose every attempt returned a text that does not parse has
\* raised after a retry, and its key has no row in the cache.
C40_Witness ==
    /\ client.phase = "on"
    /\ \E t \in Tasks :
          /\ client.calls[t].pc = "raised"
          /\ client.calls[t].outcome = "unparseable"
          /\ client.calls[t].attempt >= 1
          /\ client.calls[t].only_parse_failures
          /\ client.cache[client.calls[t].key] = Null
====
